---- MODULE Spec2Model ----
(***************************************************************************)
(* Round settlement of the remote gaming server: the instant (scratch)     *)
(* round handler with its settled-result log, and the two-phase crash      *)
(* round handlers with the crash store.  Every request handler is a        *)
(* process; one action is one stretch of a handler between two accesses to *)
(* shared state (a store call under its mutex, a wallet call).             *)
(*                                                                         *)
(* Money is in cents, a multiplier is an integer (scratch) or a number of  *)
(* hundredths (crash), wall-clock time is in milliseconds.                 *)
(***************************************************************************)
EXTENDS Integers, Sequences, FiniteSets, TLC

\* ------------------------------------------------------------------ bounds
\* Requests started in one behaviour.
MaxReq == 2
\* The wall clock advances in ticks of TickMs, up to MaxNowMs.
TickMs == 250
MaxNowMs == 1250
\* Values of the crash step draw that are explored, from CrashStepMin up.
MaxCrashDraw == 2
\* Width in bits of the signed integers that hold a weight and a sum of
\* weights (int64 in the program).
WeightBits == 3
\* Redraws of the third symbol of a losing card that are explored.
MaxRedraws == 1
\* Longest prize table of the models whose draws are explored.
MaxTiers == 2
\* Results in the settled-result log when it is explored on its own.
MaxLog == 3

\* ------------------------------------------------------- program constants
WinMultiplier == 2
CrashStepMin == 10
CrashStepMax == 400
StepMs == 100

\* ------------------------------------------------------------------ inputs
Procs == {1, 2}
RoundIDs == {"r1"}
Sessions == {"", "s1"}
Bets == {0, 100, 200}
\* Steps a cashout claims.
ClaimSteps == {-1, 0, 7, 10, 12}
GameID == "g1"

Nil == [nil |-> TRUE]

\* How an os.WriteFile of a store ends: the file written; the call failed with
\* the file as it was; the call failed after it had truncated the file, which
\* is left unreadable as JSON.
WriteOutcomes == {"written", "failed", "torn"}

symbols == <<"cherry", "lemon", "star", "seven">>
\* The symbols the random source yields in the explored runs.
Syms == {symbols[1], symbols[2]}
Triples == {<<a, b, c>> : a \in Syms, b \in Syms, c \in Syms}
AllEqual(s) == s[1] = s[2] /\ s[2] = s[3]

\* Prize tables a caller may register for the game.
TierLose(w) == [Tier |-> "LOSE", Multiplier |-> 0, Weight |-> w]
TierWin(w) == [Tier |-> "T1", Multiplier |-> 2, Weight |-> w]
MathUsable == [ModelID |-> GameID, PrizeTable |-> <<TierLose(1), TierWin(1)>>]
MathSkips == [ModelID |-> GameID, PrizeTable |-> <<TierLose(0), TierWin(1)>>]
MathNoWeight == [ModelID |-> GameID, PrizeTable |-> <<TierLose(0), TierWin(-1)>>]
MathEmpty == [ModelID |-> GameID, PrizeTable |-> <<>>]
MathNoID == [ModelID |-> "", PrizeTable |-> <<TierLose(1)>>]
Models == {MathUsable, MathSkips, MathNoWeight, MathEmpty, MathNoID}
\* Registries a starting server may load from data/game_math.json.
LoadedMaths ==
  {<<>>} \cup {[id \in {GameID} |-> m] : m \in {MathUsable, MathNoWeight}}

VARIABLES
  req,          \* per process: the handler it runs, its position and locals
  nReq,         \* requests started so far
  resultsFile,  \* data/round_results.json: [exists, torn, list]
  math,         \* gamemath.Store.math: model id -> GameMath
  mathFile,     \* data/game_math.json: [torn, entries (the storedEntry list)]
  useOperator,  \* s.operator # nil (the operator debit/credit wallet)
  wallet,       \* per round id: wallet calls that took effect
  draws,        \* per round id: outcomes drawn
  firstResp,    \* per round id: the first successful scratch response
  crashRounds,  \* round.CrashStore.rounds: round id -> CrashRound
  crashFile,    \* data/crash_rounds.json: round id -> CrashRound
  hist,         \* per round id: crash rounds created under it, Settle calls
                \* that closed an OPEN round, and those made by a status query
  now,          \* wall clock, ms
  hiloRounds,   \* round.Store.rounds of the Hi/Lo game: round id -> Round
  roundsFile,   \* data/rounds.json: round id -> Round
  registry,     \* games.Registry.providers: provider id -> list of game ids
  gamesDB       \* the games table and game_numeric_id_seq: [seq, rows]

vars == <<req, nReq, resultsFile, math, mathFile, useOperator, wallet, draws,
          firstResp, crashRounds, crashFile, hist, now, hiloRounds, roundsFile,
          registry, gamesDB>>

scratchVars == <<resultsFile, firstResp, draws>>
crashVars == <<crashRounds, crashFile, hist, now>>
hiloVars == <<hiloRounds, roundsFile>>
catalogVars == <<registry, gamesDB>>
mathVars == <<math, mathFile>>

\* round.CrashRound
CrashRound(roundID, amount, crashStep, startedAt, settled) ==
  [RoundID |-> roundID, BetID |-> "b", Currency |-> "USD", Amount |-> amount,
   CrashStep |-> crashStep, StartedAt |-> startedAt, Settled |-> settled]

\* A load that keeps every round of the file, settled or not.
LoadCrashKeepsSettled(file) == file

\* CrashStore.load: the working set read from the file, which keeps the
\* rounds of the file that are not settled.
LoadCrash(file) ==
  [rid \in {r \in DOMAIN file : ~file[r].Settled} |-> file[rid]]

\* Working sets a starting server may load from data/crash_rounds.json: none,
\* a round started at the time the server starts, and a round whose stored
\* start time is ahead of the clock of the server.
LoadedCrashRounds ==
  {<<>>} \cup {[id \in {r} |-> CrashRound(r, 100, CrashStepMin, t, FALSE)] :
                r \in RoundIDs, t \in {0, TickMs}}

Idle == [op |-> "idle", pc |-> "done"]
NoCalls == [debit |-> 0, credit |-> 0, bet |-> 0, win |-> 0, rollback |-> 0,
            winTotal |-> 0]

\* Store.saveLocked: the file written for the registry reg, one storedEntry
\* for each model.
SaveMath(reg) ==
  [torn |-> FALSE,
   entries |-> {[ModelID |-> id, Math |-> reg[id]] : id \in DOMAIN reg}]

\* The game math file after a save of the registry reg that ends as w.
SavedMath(file, reg, w) ==
  IF w = "written" THEN SaveMath(reg)
  ELSE IF w = "failed" THEN file
  ELSE [torn |-> TRUE, entries |-> {}]

\* Store.load: the registry read from the file; nothing from a file that is
\* not JSON, and no entry without a model id or a model.
LoadMath(file) ==
  IF file.torn THEN <<>>
  ELSE LET kept == {e \in file.entries : e.ModelID # "" /\ e.Math # Nil}
       IN [id \in {e.ModelID : e \in kept} |->
             (CHOOSE e \in kept : e.ModelID = id).Math]

NoResults == [exists |-> FALSE, torn |-> FALSE, list |-> <<>>]

\* Store.load of the Hi/Lo rounds: every round of rounds.json that has a
\* round id.
LoadRounds(file) ==
  [rid \in {r \in DOMAIN file : file[r].RoundID # ""} |-> file[rid]]

\* The games table before any game was added, the sequence not yet used.
NoGames == [seq |-> 0, rows |-> <<>>]

\* loadFromDB: the catalog read from the games table, the game ids of each
\* provider in row order; no provider when the database cannot be read.
LoadRegistry(db, dbOK) ==
  IF ~dbOK THEN <<>>
  ELSE LET Listed(r) == r.game_id # ""
           list == SelectSeq(db.rows, Listed)
           provs == {list[i].provider : i \in DOMAIN list}
           Of(pid) == LET From(r) == r.provider = pid
                          mine == SelectSeq(list, From)
                      IN [i \in DOMAIN mine |-> mine[i].game_id]
       IN [pid \in provs |-> Of(pid)]

Init ==
  /\ req = [p \in Procs |-> Idle]
  /\ nReq = 0
  /\ resultsFile = NoResults
  /\ math \in LoadedMaths
  /\ mathFile = SaveMath(math)
  /\ useOperator \in BOOLEAN
  /\ wallet = [r \in RoundIDs |-> NoCalls]
  /\ draws = [r \in RoundIDs |-> 0]
  /\ firstResp = [r \in RoundIDs |-> Nil]
  /\ crashRounds \in LoadedCrashRounds
  /\ crashFile = crashRounds
  /\ hist = [r \in RoundIDs |->
               [creates |-> IF r \in DOMAIN crashRounds THEN 1 ELSE 0,
                opened |-> 0, lazy |-> 0]]
  /\ now = 0
  /\ hiloRounds = <<>>
  /\ roundsFile = <<>>
  /\ gamesDB = NoGames
  /\ registry = <<>>

\* A wallet call of kind k for round r took effect.
Called(r, k) == [wallet EXCEPT ![r][k] = @ + 1]
WalletCalls(r) ==
  wallet[r].debit + wallet[r].credit + wallet[r].bet + wallet[r].win
    + wallet[r].rollback

\* --------------------------------------------------------- math registry
\* gamemath.Store.Get
MathGet(modelID) == IF modelID \in DOMAIN math THEN math[modelID] ELSE Nil

\* Map m with key k set to v.
Put(m, k, v) == [x \in DOMAIN m \cup {k} |-> IF x = k THEN v ELSE m[x]]

\* A Register that skips only a nil model.
RegisterSkipsNil(m) == m = Nil

\* Register returns at once, with no error, for a nil model and for a model
\* without a model id.
RegisterSkips(m) == m = Nil \/ m.ModelID = ""

\* A Register that appends the table of m to the table registered.
RegisterMerging(m, w) ==
  IF m = Nil \/ m.ModelID = ""
  THEN [math |-> math, file |-> mathFile, err |-> FALSE]
  ELSE LET old == IF m.ModelID \in DOMAIN math
                  THEN math[m.ModelID].PrizeTable ELSE <<>>
           reg == [x \in DOMAIN math \cup {m.ModelID} |->
                     IF x = m.ModelID
                     THEN [m EXCEPT !.PrizeTable = old \o m.PrizeTable]
                     ELSE math[x]]
       IN [math |-> reg,
           file |-> IF w = "written"
                    THEN [torn |-> FALSE,
                          entries |-> {[ModelID |-> id, Math |-> reg[id]] :
                                         id \in DOMAIN reg}]
                    ELSE IF w = "failed" THEN mathFile
                    ELSE [torn |-> TRUE, entries |-> {}],
           err |-> w # "written"]

\* Store.Register of the model m (Nil: a nil pointer), under s.mu from the map
\* write to the end of the save that ends as w: the registry, the file and
\* the error after the call.  A failed save leaves the model in the registry.
Register(m, w) ==
  IF RegisterSkips(m)
  THEN [math |-> math, file |-> mathFile, err |-> FALSE]
  ELSE LET reg == Put(math, m.ModelID, m)
       IN [math |-> reg, file |-> SavedMath(mathFile, reg, w),
           err |-> w # "written"]

\* handleRegisterGameMath: the handler rejects an empty model id or prize
\* table, then calls Register.
RegisterGameMath(m, w) ==
  /\ m.ModelID # ""
  /\ Len(m.PrizeTable) > 0
  /\ math' = Register(m, w).math
  /\ mathFile' = Register(m, w).file
  /\ UNCHANGED <<req, nReq, useOperator, hiloVars, catalogVars,
                 wallet, scratchVars, crashVars>>

\* ------------------------------------------------------- outcome engine
\* The value a signed integer of WeightBits bits holds for x.
Wrap(x) ==
  LET m == 2 ^ WeightBits IN ((x + m \div 2) % m) - m \div 2

\* PrizeTier{} and scratch.Outcome{}.
ZeroTier == [Tier |-> "", Multiplier |-> 0, Weight |-> 0]
ZeroOutcome ==
  [Symbols |-> <<"", "", "">>, WinAmount |-> 0, Match |-> FALSE, Tier |-> ""]

\* The first loop of PickTier: total, from tier i on, of the positive weights.
RECURSIVE TotalWeight(_, _, _)
TotalWeight(table, i, total) ==
  IF i > Len(table) THEN total
  ELSE IF table[i].Weight <= 0 THEN TotalWeight(table, i + 1, total)
  ELSE TotalWeight(table, i + 1, Wrap(total + table[i].Weight))

\* A walk that takes the tier at the position of idx, whatever the weights.
PickWalkByPosition(table, idx, i, cum) == (idx % Len(table)) + 1

\* The second loop of PickTier: the index of the first positive-weight tier,
\* from tier i on, whose cumulative weight exceeds idx; the last tier of the
\* table when the loop ends without one.
RECURSIVE PickWalk(_, _, _, _)
PickWalk(table, idx, i, cum) ==
  IF i > Len(table) THEN Len(table)
  ELSE IF table[i].Weight <= 0 THEN PickWalk(table, idx, i + 1, cum)
  ELSE IF idx < Wrap(cum + table[i].Weight) THEN i
  ELSE PickWalk(table, idx, i + 1, Wrap(cum + table[i].Weight))

\* A pick that falls back on the last tier of a table without positive weight.
PickTierDefault(m, v, randOK) ==
  IF m = Nil \/ Len(m.PrizeTable) = 0 THEN [ok |-> FALSE, tier |-> ZeroTier]
  ELSE IF TotalWeight(m.PrizeTable, 1, 0) <= 0
    THEN [ok |-> TRUE, tier |-> m.PrizeTable[Len(m.PrizeTable)]]
  ELSE IF ~randOK THEN [ok |-> FALSE, tier |-> ZeroTier]
  ELSE [ok |-> TRUE, tier |-> m.PrizeTable[PickWalk(m.PrizeTable, v, 1, 0)]]

\* GameMath.PickTier with the value v that rand.Int draws (randOK: the random
\* source answers): [ok, tier].
PickTier(m, v, randOK) ==
  IF m = Nil \/ Len(m.PrizeTable) = 0 THEN [ok |-> FALSE, tier |-> ZeroTier]
  ELSE IF TotalWeight(m.PrizeTable, 1, 0) <= 0
    THEN [ok |-> FALSE, tier |-> ZeroTier]
  ELSE IF ~randOK THEN [ok |-> FALSE, tier |-> ZeroTier]
  ELSE [ok |-> TRUE, tier |-> m.PrizeTable[PickWalk(m.PrizeTable, v, 1, 0)]]

\* The values rand.Int may draw in PickTier for m: [0, total).
PickRange(m) ==
  IF m = Nil \/ TotalWeight(m.PrizeTable, 1, 0) <= 0 THEN {0}
  ELSE 0..(TotalWeight(m.PrizeTable, 1, 0) - 1)

\* scratch.Generate with the three drawn symbols s.
Generate(betAmount, s) ==
  [Symbols |-> s,
   WinAmount |-> IF AllEqual(s) THEN betAmount * WinMultiplier ELSE 0,
   Match |-> AllEqual(s),
   Tier |-> ""]

\* Sequences of symbols that secureIntn draws for one card of
\* GenerateWithMath: three symbols and the redraws of the third.
DrawSeqs == [1..(3 + MaxRedraws) -> Syms]

\* A losing card that keeps the three symbols first drawn.
RedrawNone(s, d, k) == s

\* The loop of lines 78-80: the third symbol is drawn again, from draw k of d
\* on, while the three are equal.  Nil: the loop has not ended with the draws
\* of d.
RECURSIVE Redraw(_, _, _)
Redraw(s, d, k) ==
  IF ~AllEqual(s) THEN s
  ELSE IF k > Len(d) THEN Nil
  ELSE Redraw([s EXCEPT ![3] = d[k]], d, k + 1)

\* The number of draws of d that the loop of lines 78-80 has consumed when it
\* ends, or when d runs out.
RECURSIVE RedrawsUsed(_, _, _)
RedrawsUsed(s, d, k) ==
  IF ~AllEqual(s) \/ k > Len(d) THEN k - 1
  ELSE RedrawsUsed([s EXCEPT ![3] = d[k]], d, k + 1)

\* The number of symbols GenerateWithMath draws for the tier picked: none
\* without a tier, one for a winning card, three and the redraws for a losing
\* card.
DrawsUsed(pick, d) ==
  IF ~pick.ok THEN 0
  ELSE IF pick.tier.Tier = "LOSE" \/ pick.tier.Multiplier = 0
    THEN RedrawsUsed(<<d[1], d[2], d[3]>>, d, 4)
  ELSE 1

\* The symbols of lines 73-84 for the tier and the draws d.
CardSymbols(tier, d) ==
  IF tier.Tier = "LOSE" \/ tier.Multiplier = 0
  THEN Redraw(<<d[1], d[2], d[3]>>, d, 4)
  ELSE <<d[1], d[1], d[1]>>

\* A GenerateWithMath that pays the stake back on every card, whatever the
\* multiplier of the tier.
GenerateWithMathStakeOnly(betAmount, m, v, randOK, d) ==
  LET pick == PickTier(m, v, randOK) IN
  IF m = Nil \/ ~pick.ok THEN [ok |-> FALSE, outcome |-> ZeroOutcome]
  ELSE [ok |-> TRUE,
        outcome |-> [Symbols |-> CardSymbols(pick.tier, d),
                     WinAmount |-> betAmount, Match |-> betAmount > 0,
                     Tier |-> pick.tier.Tier]]

\* scratch.GenerateWithMath with the value v and the symbols d drawn:
\* [ok, outcome].  The outcome has Symbols = Nil when the call has not
\* returned with the draws of d.
GenerateWithMath(betAmount, m, v, randOK, d) ==
  LET pick == PickTier(m, v, randOK) IN
  IF m = Nil \/ ~pick.ok THEN [ok |-> FALSE, outcome |-> ZeroOutcome]
  ELSE [ok |-> TRUE,
        outcome |-> [Symbols |-> CardSymbols(pick.tier, d),
                     WinAmount |-> betAmount * pick.tier.Multiplier,
                     Match |-> betAmount * pick.tier.Multiplier > 0,
                     Tier |-> pick.tier.Tier]]

\* The draws handleScratchRoundStart can make for the game's math m: from the
\* math, else (no math registered, or math that yields no tier) from the
\* legacy Generate.  Each draw: the outcome, whether the legacy default stood
\* in for registered math, whether a tier was drawn, and the multiplier of
\* the tier drawn (of the legacy card otherwise).
ResolveOutcome(betAmount, m) ==
  IF m # Nil
  THEN UNION {
         LET g == GenerateWithMath(betAmount, m, x[1], x[2], x[3]) IN
         IF g.ok
         THEN IF g.outcome.Symbols = Nil THEN {}
              ELSE {[outcome |-> g.outcome, substituted |-> FALSE,
                     fromTier |-> TRUE,
                     mult |-> PickTier(m, x[1], x[2]).tier.Multiplier]}
         ELSE {[outcome |-> Generate(betAmount, s), substituted |-> TRUE,
                fromTier |-> FALSE,
                mult |-> IF AllEqual(s) THEN WinMultiplier ELSE 0] :
                 s \in Triples}
         : x \in PickRange(m) \X BOOLEAN \X DrawSeqs}
  ELSE {[outcome |-> Generate(betAmount, s), substituted |-> FALSE,
         fromTier |-> FALSE,
         mult |-> IF AllEqual(s) THEN WinMultiplier ELSE 0] : s \in Triples}

\* Prize tables whose draws are explored: up to MaxTiers tiers, each with a
\* label, a multiplier and a weight.
TierKinds == {<<"LOSE", 0>>, <<"T1", 2>>, <<"LOSE", 2>>, <<"T2", 0>>}
TierWeights == {-1, 0, 1, 3}
Tiers ==
  {[Tier |-> k[1], Multiplier |-> k[2], Weight |-> w] :
     k \in TierKinds, w \in TierWeights}
Tables == UNION {[1..n -> Tiers] : n \in 0..MaxTiers}
PickModels == {[ModelID |-> GameID, PrizeTable |-> t] : t \in Tables}

\* The process that makes the one call explored for each model.
Caller == CHOOSE p \in Procs : \A q \in Procs : p <= q

\* A call of PickTier on the model of the game (Nil: a nil *GameMath) that
\* draws v; a failed rand.Int draws nothing (v = 0).
PickCall(p, v, randOK) ==
  /\ nReq = 0
  /\ nReq' = nReq + 1
  /\ v \in PickRange(MathGet(GameID))
  /\ randOK \/ v = 0
  /\ req' = [req EXCEPT ![p] =
       [op |-> "pick", pc |-> "done", v |-> v, randOK |-> randOK,
        res |-> PickTier(MathGet(GameID), v, randOK)]]
  /\ UNCHANGED <<resultsFile, math, mathFile, useOperator, hiloVars,
                 catalogVars, wallet, draws,
                 firstResp, crashRounds, crashFile, hist, now>>

\* A call of GenerateWithMath on the model of the game that returns with the
\* draws d; tier is the tier that its PickTier drew.  The draws of d that the
\* call does not make are symbols[1].
GenerateCall(p, bet, v, randOK, d) ==
  LET m == MathGet(GameID)
      g == GenerateWithMath(bet, m, v, randOK, d)
  IN
  /\ nReq = 0
  /\ nReq' = nReq + 1
  /\ v \in PickRange(m)
  /\ randOK \/ v = 0
  /\ g.outcome.Symbols # Nil
  /\ \A i \in (DrawsUsed(PickTier(m, v, randOK), d) + 1)..Len(d) :
       d[i] = symbols[1]
  /\ req' = [req EXCEPT ![p] =
       [op |-> "generate", pc |-> "done", bet |-> bet, d |-> d,
        tier |-> PickTier(m, v, randOK).tier, res |-> g]]
  /\ UNCHANGED <<resultsFile, math, mathFile, useOperator, hiloVars,
                 catalogVars, wallet, draws,
                 firstResp, crashRounds, crashFile, hist, now>>

NextPick ==
  \/ \E v \in PickRange(MathGet(GameID)), randOK \in BOOLEAN :
       PickCall(Caller, v, randOK)
  \/ \E bet \in Bets \ {0}, v \in PickRange(MathGet(GameID)),
        randOK \in BOOLEAN, d \in DrawSeqs :
       GenerateCall(Caller, bet, v, randOK, d)

\* The outcome engine on every model of PickModels, and on no model.
InitPick ==
  /\ req = [p \in Procs |-> Idle]
  /\ nReq = 0
  /\ resultsFile = NoResults
  /\ math \in {<<>>} \cup {[id \in {GameID} |-> m] : m \in PickModels}
  /\ mathFile = SaveMath(math)
  /\ useOperator = FALSE
  /\ wallet = [r \in RoundIDs |-> NoCalls]
  /\ draws = [r \in RoundIDs |-> 0]
  /\ firstResp = [r \in RoundIDs |-> Nil]
  /\ crashRounds = <<>>
  /\ crashFile = <<>>
  /\ hist = [r \in RoundIDs |-> [creates |-> 0, opened |-> 0, lazy |-> 0]]
  /\ now = 0
  /\ hiloRounds = <<>>
  /\ roundsFile = <<>>
  /\ gamesDB = NoGames
  /\ registry = <<>>

SpecPick == InitPick /\ [][NextPick]_vars

\* ------------------------------------------------------ settled-result log
\* Index of the last result of the list with the round id, 0 when none.
RECURSIVE LastIndex(_, _, _)
LastIndex(list, roundID, i) ==
  IF i = 0 THEN 0
  ELSE IF list[i].RoundID = roundID THEN i
  ELSE LastIndex(list, roundID, i - 1)

\* ResultsStore.GetByRoundID: [err, res]; a missing file and a file that is
\* not JSON are errors.
GetByRoundID(roundID) ==
  IF ~resultsFile.exists \/ resultsFile.torn THEN [err |-> TRUE, res |-> Nil]
  ELSE LET i == LastIndex(resultsFile.list, roundID, Len(resultsFile.list))
       IN [err |-> FALSE,
           res |-> IF i = 0 THEN Nil ELSE resultsFile.list[i]]

\* ResultsStore.Append with a write that ends as w: the file after the call.
\* The list read is empty when the file is missing or is not JSON (the error
\* of Unmarshal is dropped), and the result is appended to the list read.
AppendResult(r, w) ==
  LET list == IF resultsFile.exists /\ ~resultsFile.torn
              THEN resultsFile.list ELSE <<>>
  IN IF w = "written"
     THEN [exists |-> TRUE, torn |-> FALSE, list |-> Append(list, r)]
     ELSE IF w = "failed" THEN resultsFile
     ELSE [exists |-> TRUE, torn |-> TRUE, list |-> <<>>]

\* --------------------------------------------------- scratch round/start
MaxBet == 100000000

\* ScratchRoundStartResponse, with the HTTP status.
Resp(code, roundID, syms, win, delta, tier, err) ==
  [code |-> code, RoundID |-> roundID, Symbols |-> syms, WinAmount |-> win,
   BalanceDelta |-> delta, Tier |-> tier, Error |-> err]
\* writeError
ErrResp(code, codeStr) == Resp(code, "", <<>>, 0, 0, "", codeStr)

Succeeded(r) == r.code = 200 /\ r.Error = ""

\* What stays of a scratch request q once it has answered r: the response,
\* and what the request did on its way.
Ended(q, r) ==
  [op |-> q.op, pc |-> "done", rid |-> q.rid, after |-> q.after,
   drew |-> q.drew, calls |-> q.calls, substituted |-> q.substituted,
   appendOK |-> q.appendOK, resp |-> r]

\* A request is taken by the first process that is not inside a handler
\* (the processes are interchangeable).
Free(p) ==
  /\ req[p].pc = "done"
  /\ \A q \in Procs : q < p => req[q].pc # "done"
  /\ nReq < MaxReq

\* Process p answers r and ends.
Reply(p, r) == req' = [req EXCEPT ![p] = Ended(req[p], r)]

\* The first successful scratch response of a round id is remembered.
NoteFirst(rid, r) ==
  firstResp' = IF Succeeded(r) /\ firstResp[rid] = Nil
               THEN [firstResp EXCEPT ![rid] = r]
               ELSE firstResp

\* handleScratchRoundStart, lines 171-242: request validation, then the
\* replay of a recorded result.
ScratchBegin(p, rid, sid, bet) ==
  /\ Free(p)
  /\ nReq' = nReq + 1
  /\ LET fresh == [op |-> "scratch", pc |-> "draw", rid |-> rid, sid |-> sid,
                   bet |-> bet, after |-> firstResp[rid] # Nil, outcome |-> Nil,
                   mult |-> 0, fromTier |-> FALSE, substituted |-> FALSE,
                   delta |-> 0, drew |-> FALSE,
                   calls |-> 0, appendOK |-> TRUE, resp |-> Nil]
         ended(r) == Ended(fresh, r)
         existing == GetByRoundID(rid)
     IN
       IF sid = "" THEN
         /\ req' = [req EXCEPT ![p] = ended(ErrResp(401, "TOKEN_REQUIRED"))]
         /\ UNCHANGED firstResp
       ELSE IF bet <= 0 \/ bet > MaxBet THEN
         /\ req' = [req EXCEPT ![p] = ended(ErrResp(400, "INVALID_AMOUNT"))]
         /\ UNCHANGED firstResp
       ELSE IF ~existing.err /\ existing.res # Nil THEN
         LET r == Resp(200, existing.res.RoundID, existing.res.Symbols,
                       existing.res.WinAmount, existing.res.BalanceDelta,
                       "", "")
         IN /\ req' = [req EXCEPT ![p] = ended(r)]
            /\ NoteFirst(rid, r)
       ELSE
         /\ req' = [req EXCEPT ![p] = fresh]
         /\ UNCHANGED firstResp
  /\ UNCHANGED <<resultsFile, draws, useOperator, hiloVars, catalogVars,
                 wallet, mathVars, crashVars>>

\* Lines 244-256: the outcome is drawn, before any wallet call.
ScratchDraw(p) ==
  /\ req[p].op = "scratch" /\ req[p].pc = "draw"
  /\ \E d \in ResolveOutcome(req[p].bet, MathGet(GameID)) :
       req' = [req EXCEPT ![p].outcome = d.outcome,
                          ![p].mult = d.mult,
                          ![p].fromTier = d.fromTier,
                          ![p].substituted = d.substituted,
                          ![p].drew = TRUE,
                          ![p].pc = IF useOperator THEN "session" ELSE "bet"]
  /\ draws' = [draws EXCEPT ![req[p].rid] = @ + 1]
  /\ UNCHANGED <<nReq, resultsFile, firstResp, useOperator, hiloVars,
                 catalogVars, wallet, mathVars,
                 crashVars>>

\* Lines 257-283, operator wallet: the database and the session lookup.
ScratchSession(p, dbOK, found) ==
  /\ req[p].op = "scratch" /\ req[p].pc = "session"
  /\ LET o == req[p].outcome IN
       IF ~dbOK THEN Reply(p, ErrResp(502, "TECHNICAL_ERROR"))
       ELSE IF ~found THEN
         Reply(p, Resp(200, req[p].rid, o.Symbols, o.WinAmount, 0, o.Tier,
                       "invalid session"))
       ELSE req' = [req EXCEPT ![p].pc = "debit"]
  /\ UNCHANGED <<nReq, scratchVars, useOperator, hiloVars, catalogVars,
                 wallet, mathVars, crashVars>>

\* Lines 291-308: the stake is debited.
ScratchDebit(p, ok) ==
  /\ req[p].op = "scratch" /\ req[p].pc = "debit"
  /\ LET o == req[p].outcome IN
       IF ~ok THEN
         /\ Reply(p, Resp(200, req[p].rid, o.Symbols, 0, 0, o.Tier,
                          "debit failed"))
         /\ UNCHANGED wallet
       ELSE
         /\ req' = [req EXCEPT ![p].pc = "credit", ![p].calls = @ + 1]
         /\ wallet' = Called(req[p].rid, "debit")
  /\ UNCHANGED <<nReq, scratchVars, useOperator, hiloVars, catalogVars,
                 mathVars, crashVars>>

\* Lines 309-370: the win amount is credited; the balance delta.
ScratchCredit(p, ok) ==
  /\ req[p].op = "scratch" /\ req[p].pc = "credit"
  /\ LET o == req[p].outcome IN
       IF ~ok THEN
         /\ Reply(p, Resp(200, req[p].rid, o.Symbols, 0, 0, o.Tier,
                          "credit failed"))
         /\ UNCHANGED wallet
       ELSE
         /\ req' = [req EXCEPT ![p].pc = "append", ![p].calls = @ + 1,
                               ![p].delta = IF o.WinAmount > 0
                                            THEN o.WinAmount - req[p].bet
                                            ELSE 0 - req[p].bet]
         /\ wallet' = Called(req[p].rid, "credit")
  /\ UNCHANGED <<nReq, scratchVars, useOperator, hiloVars, catalogVars,
                 mathVars, crashVars>>

\* Lines 372-380, platform wallet: the bet.
ScratchBet(p, ok) ==
  /\ req[p].op = "scratch" /\ req[p].pc = "bet"
  /\ IF ~ok THEN
       /\ Reply(p, ErrResp(502, "BET_FAILED"))
       /\ UNCHANGED wallet
     ELSE
       /\ req' = [req EXCEPT ![p].pc = IF req[p].outcome.Match THEN "win"
                                       ELSE "append",
                             ![p].calls = @ + 1,
                             ![p].delta = 0 - req[p].bet]
       /\ wallet' = Called(req[p].rid, "bet")
  /\ UNCHANGED <<nReq, scratchVars, useOperator, hiloVars, catalogVars,
                 mathVars, crashVars>>

\* Lines 381-388: the win of a matching outcome; a failed win rolls the bet
\* back.
ScratchWin(p, ok) ==
  /\ req[p].op = "scratch" /\ req[p].pc = "win"
  /\ IF ~ok THEN
       /\ req' = [req EXCEPT ![p] = Ended([req[p] EXCEPT !.calls = @ + 1],
                                           ErrResp(502, "WIN_FAILED"))]
       /\ wallet' = Called(req[p].rid, "rollback")
     ELSE
       /\ req' = [req EXCEPT ![p].pc = "append", ![p].calls = @ + 1,
                             ![p].delta = req[p].outcome.WinAmount - req[p].bet]
       /\ wallet' = [Called(req[p].rid, "win") EXCEPT
                       ![req[p].rid].winTotal = @ + req[p].outcome.WinAmount]
  /\ UNCHANGED <<nReq, scratchVars, useOperator, hiloVars, catalogVars,
                 mathVars, crashVars>>

\* Lines 394-416: the result is appended to the log, its error dropped, and
\* the outcome answered.
ScratchAppend(p, w) ==
  /\ req[p].op = "scratch" /\ req[p].pc = "append"
  /\ LET o == req[p].outcome
         r == Resp(200, req[p].rid, o.Symbols, o.WinAmount, req[p].delta,
                   o.Tier, "")
     IN
       /\ resultsFile' =
            AppendResult([RoundID |-> req[p].rid, BetID |-> "",
                          Outcome |-> IF o.Match THEN "win" ELSE "lose",
                          NextNumber |-> 0, BalanceDelta |-> req[p].delta,
                          SettledAt |-> now, Symbols |-> o.Symbols,
                          WinAmount |-> o.WinAmount], w)
       /\ req' = [req EXCEPT ![p] =
                    Ended([req[p] EXCEPT !.appendOK = (w = "written")], r)]
       /\ NoteFirst(req[p].rid, r)
  /\ UNCHANGED <<nReq, draws, useOperator, hiloVars, catalogVars,
                 wallet, mathVars, crashVars>>

NextScratch ==
  \/ \E p \in Procs, rid \in RoundIDs, sid \in Sessions, bet \in Bets :
       ScratchBegin(p, rid, sid, bet)
  \/ \E p \in Procs : ScratchDraw(p)
  \/ \E p \in Procs, dbOK \in BOOLEAN, found \in BOOLEAN :
       ScratchSession(p, dbOK, found)
  \/ \E p \in Procs, ok \in BOOLEAN : ScratchDebit(p, ok)
  \/ \E p \in Procs, ok \in BOOLEAN : ScratchCredit(p, ok)
  \/ \E p \in Procs, ok \in BOOLEAN : ScratchBet(p, ok)
  \/ \E p \in Procs, ok \in BOOLEAN : ScratchWin(p, ok)
  \/ \E p \in Procs, w \in WriteOutcomes : ScratchAppend(p, w)

InitScratch == Init /\ crashRounds = <<>>

SpecScratch == InitScratch /\ [][NextScratch]_vars

\* ------------------------------------------------------------ crash rounds
\* A crash step counted from 0 instead of from CrashStepMin.
GenerateCrashStepFromZero(v, randOK) == IF randOK THEN v ELSE CrashStepMin

\* crash.GenerateCrashStep: CrashStepMin + v for a drawn v in [0, n), and
\* CrashStepMin when the random source fails.
GenerateCrashStep(v, randOK) == IF randOK THEN CrashStepMin + v ELSE CrashStepMin

\* The values v the explored runs draw.
CrashDraws ==
  {v \in 0..(CrashStepMax - CrashStepMin) : v < MaxCrashDraw}

\* crash.Multiplier, in hundredths.
Multiplier(step) == 100 + (IF step < 0 THEN 0 ELSE step)

\* A current step that is not floored at 0.
CurrentStepNoFloor(startedAt, t) == (t - startedAt) \div StepMs

\* currentStep of handleCrashCashout and handleCrashStatus at time t.
CurrentStep(startedAt, t) ==
  IF (t - startedAt) < 0 THEN 0 ELSE (t - startedAt) \div StepMs

\* CrashStore.save: the file after a save of the working set rounds.
Saved(rounds, saveOK) == IF saveOK THEN rounds ELSE crashFile

\* CrashStore.Create: the working set after the call.
Create(roundID, amount, crashStep) ==
  Put(crashRounds, roundID, CrashRound(roundID, amount, crashStep, now, FALSE))

\* CrashStore.Get: [ok, r].
Get(roundID) ==
  IF roundID \in DOMAIN crashRounds
  THEN [ok |-> TRUE, r |-> crashRounds[roundID]]
  ELSE [ok |-> FALSE, r |-> Nil]

\* CrashStore.Settle: the working set after the call.
Settle(roundID) ==
  IF roundID \in DOMAIN crashRounds
  THEN [crashRounds EXCEPT ![roundID].Settled = TRUE]
  ELSE crashRounds

\* Whether a Settle call now takes the round from OPEN to SETTLED.
Closes(roundID) ==
  roundID \in DOMAIN crashRounds /\ ~crashRounds[roundID].Settled

\* What stays of a crash request q once it has answered r.
EndedCrash(q, r) ==
  [op |-> q.op, pc |-> "done", rid |-> q.rid, paid |-> q.paid,
   closed |-> q.closed, resp |-> r]

ReplyCrash(p, r) == req' = [req EXCEPT ![p] = EndedCrash(req[p], r)]

CrashErr(code, codeStr) == [code |-> code, Error |-> codeStr]

\* CrashRoundStartResponse of the stored round cr.
StartResp(cr) ==
  [code |-> 200, RoundID |-> cr.RoundID, StartedAtMs |-> cr.StartedAt,
   Error |-> ""]

\* CrashCashoutResponse of a cashout after the crash.
LoseResp(rid, cr) ==
  [code |-> 200, RoundID |-> rid, CashedOut |-> FALSE, Crashed |-> TRUE,
   CrashStep |-> cr.CrashStep, WinAmount |-> 0, BalanceDelta |-> 0 - cr.Amount,
   Error |-> ""]

\* CrashCashoutResponse of a paid cashout.
WinResp(rid, cr, winAmount) ==
  [code |-> 200, RoundID |-> rid, CashedOut |-> TRUE, Crashed |-> FALSE,
   CrashStep |-> 0, WinAmount |-> winAmount,
   BalanceDelta |-> winAmount - cr.Amount, Error |-> ""]

\* req.Step after the clamp of lines 529-531.
ClampStep(step) == IF step < 0 THEN 0 ELSE step

\* A payout that leaves the stake out of the multiplier.
WinAmountNoStake(amount, step) == (amount * ClampStep(step)) \div 100

\* A payout at the multiplier of the step after the one cashed out at.
WinAmountNextStep(amount, step) == (amount * Multiplier(step + 1)) \div 100

\* winAmount of lines 548-549 for the stake and the (clamped) step.
WinAmount(amount, step) == (amount * Multiplier(step)) \div 100

\* A decision that pays a cash out landing exactly on the crash step.
CashoutDecisionStrict(cr, claimed, currentStep) ==
  IF claimed > currentStep THEN "invalid"
  ELSE IF ClampStep(claimed) > cr.CrashStep THEN "lose"
  ELSE "win"

\* A decision without the check against the current step.
CashoutDecisionNoFuture(cr, claimed, currentStep) ==
  IF ClampStep(claimed) >= cr.CrashStep THEN "lose" ELSE "win"

\* What handleCrashCashout decides, lines 525-533, for the round cr, the step
\* the request claims and the current step.
CashoutDecision(cr, claimed, currentStep) ==
  IF claimed > currentStep THEN "invalid"
  ELSE IF ClampStep(claimed) >= cr.CrashStep THEN "lose"
  ELSE "win"

\* handleCrashRoundStart, lines 433-464: validation and the bet.
CrashStart(p, rid, tok, amount, betOK) ==
  /\ Free(p)
  /\ nReq' = nReq + 1
  /\ LET fresh == [op |-> "crashStart", pc |-> "create", rid |-> rid,
                   amount |-> amount, paid |-> FALSE, closed |-> FALSE]
     IN
       IF tok = "" THEN
         /\ req' = [req EXCEPT ![p] =
                      EndedCrash(fresh, CrashErr(401, "TOKEN_REQUIRED"))]
         /\ UNCHANGED wallet
       ELSE IF amount <= 0 THEN
         /\ req' = [req EXCEPT ![p] =
                      EndedCrash(fresh, CrashErr(400, "INVALID_AMOUNT"))]
         /\ UNCHANGED wallet
       ELSE IF ~betOK THEN
         /\ req' = [req EXCEPT ![p] =
                      EndedCrash(fresh, CrashErr(502, "BET_FAILED"))]
         /\ UNCHANGED wallet
       ELSE
         /\ req' = [req EXCEPT ![p] = fresh]
         /\ wallet' = Called(rid, "bet")
  /\ UNCHANGED <<useOperator, hiloVars, catalogVars,
                 scratchVars, mathVars, crashVars>>

\* Lines 466-471: the crash step is drawn and the round stored under the
\* round id, whatever the store holds under it.
CrashCreate(p, v, randOK, saveOK) ==
  /\ req[p].op = "crashStart" /\ req[p].pc = "create"
  /\ LET rid == req[p].rid
         rounds == Create(rid, req[p].amount, GenerateCrashStep(v, randOK))
     IN
       /\ crashRounds' = rounds
       /\ crashFile' = Saved(rounds, saveOK)
       /\ hist' = [hist EXCEPT ![rid].creates = @ + 1]
       /\ ReplyCrash(p, StartResp(rounds[rid]))
  /\ UNCHANGED <<nReq, useOperator, hiloVars, catalogVars,
                 wallet, scratchVars, mathVars, now>>

\* A Settle call of process p on its round id, and what it leaves in hist:
\* whether it took the round from OPEN to SETTLED, and whether it was the
\* lazy loss of a status query.
DoSettle(p, saveOK, byStatus) ==
  LET rid == req[p].rid IN
  /\ crashRounds' = Settle(rid)
  /\ crashFile' = IF rid \in DOMAIN crashRounds
                  THEN Saved(crashRounds', saveOK) ELSE crashFile
  /\ hist' = IF Closes(rid)
             THEN [hist EXCEPT ![rid].opened = @ + 1,
                               ![rid].lazy = IF byStatus THEN @ + 1 ELSE @]
             ELSE hist

\* A rejection that lets a settled round through.
CashoutRejectNoSettled(tok, got) ==
  IF tok = "" THEN CrashErr(401, "TOKEN_REQUIRED")
  ELSE IF ~got.ok THEN CrashErr(404, "ROUND_NOT_FOUND")
  ELSE Nil

\* The error handleCrashCashout answers, lines 497-516, for the token and
\* the result got of Get; Nil when the request goes on.
CashoutReject(tok, got) ==
  IF tok = "" THEN CrashErr(401, "TOKEN_REQUIRED")
  ELSE IF ~got.ok THEN CrashErr(404, "ROUND_NOT_FOUND")
  ELSE IF got.r.Settled THEN CrashErr(409, "ROUND_SETTLED")
  ELSE Nil

\* handleCrashCashout, lines 491-516: validation, Get, and the check that the
\* round is not settled.
CashoutGet(p, rid, tok, step) ==
  /\ Free(p)
  /\ nReq' = nReq + 1
  /\ LET fresh == [op |-> "cashout", pc |-> "eval", rid |-> rid,
                   step |-> step, cr |-> Get(rid).r, paid |-> FALSE,
                   closed |-> FALSE, win |-> 0]
         rejected == CashoutReject(tok, Get(rid))
     IN req' = [req EXCEPT ![p] =
          IF rejected # Nil THEN EndedCrash(fresh, rejected) ELSE fresh]
  /\ UNCHANGED <<useOperator, hiloVars, catalogVars,
                 wallet, scratchVars, mathVars, crashVars>>

\* Lines 518-533, 547-549: the current step from the clock, the claimed step
\* checked against it, and win or loss decided by the claimed step.
CashoutEval(p) ==
  /\ req[p].op = "cashout" /\ req[p].pc = "eval"
  /\ LET cr == req[p].cr
         currentStep == CurrentStep(cr.StartedAt, now)
         step == ClampStep(req[p].step)
         decision == CashoutDecision(cr, req[p].step, currentStep)
     IN
       IF decision = "invalid" THEN
         ReplyCrash(p, CrashErr(400, "INVALID_STEP"))
       ELSE IF decision = "lose" THEN
         req' = [req EXCEPT ![p].step = step, ![p].pc = "lose"]
       ELSE
         req' = [req EXCEPT ![p].step = step, ![p].pc = "win",
                            ![p].win = WinAmount(cr.Amount, step)]
  /\ UNCHANGED <<nReq, useOperator, hiloVars, catalogVars,
                 wallet, scratchVars, mathVars, crashVars>>

\* Lines 534-545: the round crashed before the claimed step: Settle, loss.
CashoutLose(p, saveOK) ==
  /\ req[p].op = "cashout" /\ req[p].pc = "lose"
  /\ DoSettle(p, saveOK, FALSE)
  /\ req' = [req EXCEPT ![p] =
       EndedCrash([req[p] EXCEPT !.closed = TRUE],
                  LoseResp(req[p].rid, req[p].cr))]
  /\ UNCHANGED <<nReq, useOperator, hiloVars, catalogVars,
                 wallet, scratchVars, mathVars, now>>

\* A cashout that settles the round also when the wallet refuses the credit.
CashoutWinSettlesAnyway(p, ok) ==
  /\ req[p].op = "cashout" /\ req[p].pc = "win"
  /\ IF ~ok THEN
       /\ ReplyCrash(p, CrashErr(502, "WIN_FAILED"))
       /\ DoSettle(p, TRUE, FALSE)
       /\ UNCHANGED <<wallet, now>>
     ELSE
       /\ req' = [req EXCEPT ![p].pc = "settle", ![p].paid = TRUE]
       /\ wallet' = [Called(req[p].rid, "win") EXCEPT
                       ![req[p].rid].winTotal = @ + req[p].win]
       /\ UNCHANGED crashVars
  /\ UNCHANGED <<nReq, useOperator, hiloVars, catalogVars,
                 scratchVars, mathVars>>

\* Lines 550-554: the win is credited.
CashoutWin(p, ok) ==
  /\ req[p].op = "cashout" /\ req[p].pc = "win"
  /\ IF ~ok THEN
       /\ ReplyCrash(p, CrashErr(502, "WIN_FAILED"))
       /\ UNCHANGED wallet
     ELSE
       /\ req' = [req EXCEPT ![p].pc = "settle", ![p].paid = TRUE]
       /\ wallet' = [Called(req[p].rid, "win") EXCEPT
                       ![req[p].rid].winTotal = @ + req[p].win]
  /\ UNCHANGED <<nReq, useOperator, hiloVars, catalogVars,
                 scratchVars, mathVars, crashVars>>

\* Lines 555-563: Settle after the credit, and the win answered.
CashoutSettle(p, saveOK) ==
  /\ req[p].op = "cashout" /\ req[p].pc = "settle"
  /\ DoSettle(p, saveOK, FALSE)
  /\ req' = [req EXCEPT ![p] =
       EndedCrash([req[p] EXCEPT !.closed = TRUE],
                  WinResp(req[p].rid, req[p].cr, req[p].win))]
  /\ UNCHANGED <<nReq, useOperator, hiloVars, catalogVars,
                 wallet, scratchVars, mathVars, now>>

\* handleCrashStatus, lines 567-583: validation and Get.
StatusGet(p, rid, tok) ==
  /\ Free(p)
  /\ nReq' = nReq + 1
  /\ LET fresh == [op |-> "status", pc |-> "eval", rid |-> rid,
                   cr |-> Get(rid).r, currentStep |-> 0, paid |-> FALSE,
                   closed |-> FALSE]
     IN req' = [req EXCEPT ![p] =
          IF tok = "" THEN EndedCrash(fresh, CrashErr(400, "INVALID_REQUEST"))
          ELSE IF ~Get(rid).ok
            THEN EndedCrash(fresh, [code |-> 200, roundId |-> rid,
                                    currentStep |-> 0, crashed |-> FALSE])
          ELSE fresh]
  /\ UNCHANGED <<useOperator, hiloVars, catalogVars,
                 wallet, scratchVars, mathVars, crashVars>>

\* A status response that carries the crash step of a round still running.
StatusRespDisclosing(rid, cr, currentStep) ==
  [code |-> 200, roundId |-> rid, currentStep |-> currentStep,
   multiplier |-> Multiplier(currentStep),
   crashed |-> currentStep >= cr.CrashStep,
   crashStep |-> cr.CrashStep,
   crashMultiplier |-> Multiplier(cr.CrashStep)]

\* The status response of lines 595-605.
StatusResp(rid, cr, currentStep) ==
  LET crashed == currentStep >= cr.CrashStep IN
  [code |-> 200, roundId |-> rid, currentStep |-> currentStep,
   multiplier |-> Multiplier(currentStep), crashed |-> crashed,
   crashStep |-> IF crashed THEN cr.CrashStep ELSE 0,
   crashMultiplier |-> IF crashed THEN Multiplier(cr.CrashStep) ELSE 0]

\* Lines 585-591: the current step from the clock; a round not yet crashed
\* is answered at once.
StatusEval(p) ==
  /\ req[p].op = "status" /\ req[p].pc = "eval"
  /\ LET cr == req[p].cr
         currentStep == CurrentStep(cr.StartedAt, now)
     IN
       IF currentStep >= cr.CrashStep
       THEN req' = [req EXCEPT ![p].pc = "settle",
                               ![p].currentStep = currentStep]
       ELSE ReplyCrash(p, StatusResp(req[p].rid, cr, currentStep))
  /\ UNCHANGED <<nReq, useOperator, hiloVars, catalogVars,
                 wallet, scratchVars, mathVars, crashVars>>

\* Lines 592-605: the crashed round is settled by the query (lazy loss).
StatusSettle(p, saveOK) ==
  /\ req[p].op = "status" /\ req[p].pc = "settle"
  /\ DoSettle(p, saveOK, TRUE)
  /\ req' = [req EXCEPT ![p] =
       EndedCrash([req[p] EXCEPT !.closed = TRUE],
                  StatusResp(req[p].rid, req[p].cr, req[p].currentStep))]
  /\ UNCHANGED <<nReq, useOperator, hiloVars, catalogVars,
                 wallet, scratchVars, mathVars, now>>

\* The wall clock advances.
Tick ==
  /\ now + TickMs <= MaxNowMs
  /\ now' = now + TickMs
  /\ UNCHANGED <<req, nReq, useOperator, hiloVars, catalogVars,
                 wallet, scratchVars, mathVars,
                 crashRounds, crashFile, hist>>

\* The server process ends and a new one starts (server.New): the handlers in
\* flight are gone, the stores are read again from their files.
Restart ==
  /\ req' = [p \in Procs |-> Idle]
  /\ crashRounds' = LoadCrash(crashFile)
  /\ math' = LoadMath(mathFile)
  /\ hiloRounds' = LoadRounds(roundsFile)
  /\ \E dbOK \in BOOLEAN : registry' = LoadRegistry(gamesDB, dbOK)
  /\ UNCHANGED <<nReq, mathFile, useOperator, roundsFile, gamesDB, wallet,
                 scratchVars, crashFile, hist, now>>

NextCrash ==
  \/ \E p \in Procs, rid \in RoundIDs, tok \in Sessions, amount \in Bets,
        betOK \in BOOLEAN : CrashStart(p, rid, tok, amount, betOK)
  \/ \E p \in Procs, v \in CrashDraws, randOK \in BOOLEAN, saveOK \in BOOLEAN :
       CrashCreate(p, v, randOK, saveOK)
  \/ \E p \in Procs, rid \in RoundIDs, tok \in Sessions, step \in ClaimSteps :
       CashoutGet(p, rid, tok, step)
  \/ \E p \in Procs : CashoutEval(p)
  \/ \E p \in Procs, saveOK \in BOOLEAN : CashoutLose(p, saveOK)
  \/ \E p \in Procs, ok \in BOOLEAN : CashoutWin(p, ok)
  \/ \E p \in Procs, saveOK \in BOOLEAN : CashoutSettle(p, saveOK)
  \/ \E p \in Procs, rid \in RoundIDs, tok \in Sessions : StatusGet(p, rid, tok)
  \/ \E p \in Procs : StatusEval(p)
  \/ \E p \in Procs, saveOK \in BOOLEAN : StatusSettle(p, saveOK)
  \/ Tick
  \/ Restart

InitCrash == Init /\ math = <<>> /\ ~useOperator

SpecCrash == InitCrash /\ [][NextCrash]_vars

\* A step of the handler that process p is in.  The goroutine of a request
\* that the server has accepted runs on to its response.
HandlerStep(p) ==
  \/ \E v \in CrashDraws, randOK \in BOOLEAN, saveOK \in BOOLEAN :
       CrashCreate(p, v, randOK, saveOK)
  \/ CashoutEval(p)
  \/ \E saveOK \in BOOLEAN : CashoutLose(p, saveOK)
  \/ \E ok \in BOOLEAN : CashoutWin(p, ok)
  \/ \E saveOK \in BOOLEAN : CashoutSettle(p, saveOK)
  \/ StatusEval(p)
  \/ \E saveOK \in BOOLEAN : StatusSettle(p, saveOK)

\* The crash rounds with the progress the server itself makes: time passes
\* and accepted requests are answered.  Whether a client sends a request, and
\* whether the server is restarted, is left open.
SpecCrashLive ==
  /\ SpecCrash
  /\ WF_vars(Tick)
  /\ \A p \in Procs : WF_vars(HandlerStep(p))

Next ==
  \/ NextScratch
  \/ NextCrash
  \/ \E m \in Models, w \in WriteOutcomes : RegisterGameMath(m, w)

Spec == Init /\ [][Next]_vars

\* ------------------------------------------------------ the model Store
\* Calls of Store.Register and Store.Get by concurrent callers, and restarts
\* of the server on the same data directory.
StoreB == [ModelID |-> GameID, PrizeTable |-> <<TierWin(1)>>]
StoreOther == [ModelID |-> "g2", PrizeTable |-> <<TierLose(1)>>]
StoreModels == {Nil, MathUsable, StoreB, StoreOther, MathNoID}
StoreIDs == {"", GameID, "g2"}

\* The map entry of a model while the map write of line 83 is under way.
Partial(m) ==
  [m EXCEPT !.PrizeTable = SubSeq(m.PrizeTable, 1, Len(m.PrizeTable) - 1)]

\* A Store that never finds s.mu held.
WriterHoldsNever(p) == FALSE

\* s.mu is held for writing by a Register of another caller than p.
WriterHolds(p) ==
  \E q \in Procs \ {p} : req[q].op = "register" /\ req[q].pc = "save"

\* The registry as of the last Register that has released s.mu.
Committed ==
  IF \E q \in Procs : req[q].op = "register" /\ req[q].pc = "save"
  THEN req[CHOOSE q \in Procs :
             req[q].op = "register" /\ req[q].pc = "save"].old
  ELSE math
CommittedGet(id) == IF id \in DOMAIN Committed THEN Committed[id] ELSE Nil

\* A call is made by the first caller that is not inside one.
StoreFree(p) ==
  /\ req[p].pc = "done"
  /\ \A q \in Procs : q < p => req[q].pc # "done"

\* Register, lines 77-80: a nil model and a model without an id return no
\* error; any other model goes on to s.mu.Lock.
StoreRegisterCall(p, m) ==
  /\ StoreFree(p)
  /\ req' = [req EXCEPT ![p] =
       [op |-> "register", pc |-> IF RegisterSkips(m) THEN "done" ELSE "lock",
        m |-> m, old |-> <<>>, err |-> FALSE]]
  /\ UNCHANGED <<nReq, useOperator, hiloVars, catalogVars,
                 wallet, scratchVars, mathVars, crashVars>>

\* Lines 81-83: s.mu is taken and the map write begins.
StoreRegisterLock(p) ==
  /\ req[p].op = "register" /\ req[p].pc = "lock"
  /\ ~WriterHolds(p)
  /\ math' = Put(math, req[p].m.ModelID, Partial(req[p].m))
  /\ req' = [req EXCEPT ![p].pc = "save", ![p].old = math]
  /\ UNCHANGED <<nReq, mathFile, useOperator, hiloVars, catalogVars,
                 wallet, scratchVars, crashVars>>

\* Lines 83-84: the map write ends, the registry is saved with a write that
\* ends as w, and s.mu is released.  A Get that waits for s.mu has seen the
\* model registered.
StoreRegisterSave(p, w) ==
  /\ req[p].op = "register" /\ req[p].pc = "save"
  /\ math' = Register(req[p].m, w).math
  /\ mathFile' = Register(req[p].m, w).file
  /\ req' = [q \in Procs |->
       IF q = p
       THEN [req[p] EXCEPT !.pc = "done", !.err = Register(req[p].m, w).err]
       ELSE IF req[q].op = "get" /\ req[q].pc = "rlock"
               /\ req[q].id = req[p].m.ModelID
         THEN [req[q] EXCEPT !.seen = @ \cup {Register(req[p].m, w).math[req[q].id]}]
       ELSE req[q]]
  /\ UNCHANGED <<nReq, useOperator, hiloVars, catalogVars,
                 wallet, scratchVars, crashVars>>

\* Get: the call is made; seen holds the models registered under the id from
\* here on.
StoreGetCall(p, id) ==
  /\ StoreFree(p)
  /\ req' = [req EXCEPT ![p] =
       [op |-> "get", pc |-> "rlock", id |-> id, seen |-> {CommittedGet(id)},
        res |-> Nil]]
  /\ UNCHANGED <<nReq, useOperator, hiloVars, catalogVars,
                 wallet, scratchVars, mathVars, crashVars>>

\* Lines 89-96: with s.mu held for reading, the map is read.
StoreGetRead(p) ==
  /\ req[p].op = "get" /\ req[p].pc = "rlock"
  /\ ~WriterHolds(p)
  /\ req' = [req EXCEPT ![p].pc = "done", ![p].res = MathGet(req[p].id)]
  /\ UNCHANGED <<nReq, useOperator, hiloVars, catalogVars,
                 wallet, scratchVars, mathVars, crashVars>>

NextStore ==
  \/ \E p \in Procs, m \in StoreModels : StoreRegisterCall(p, m)
  \/ \E p \in Procs : StoreRegisterLock(p)
  \/ \E p \in Procs, w \in WriteOutcomes : StoreRegisterSave(p, w)
  \/ \E p \in Procs, id \in StoreIDs : StoreGetCall(p, id)
  \/ \E p \in Procs : StoreGetRead(p)
  \/ Restart

\* NewStore on an empty data directory.
InitStore ==
  /\ req = [p \in Procs |-> Idle]
  /\ nReq = 0
  /\ resultsFile = NoResults
  /\ math = <<>>
  /\ mathFile = SaveMath(math)
  /\ useOperator = FALSE
  /\ wallet = [r \in RoundIDs |-> NoCalls]
  /\ draws = [r \in RoundIDs |-> 0]
  /\ firstResp = [r \in RoundIDs |-> Nil]
  /\ crashRounds = <<>>
  /\ crashFile = <<>>
  /\ hist = [r \in RoundIDs |-> [creates |-> 0, opened |-> 0, lazy |-> 0]]
  /\ now = 0
  /\ hiloRounds = <<>>
  /\ roundsFile = <<>>
  /\ gamesDB = NoGames
  /\ registry = <<>>

SpecStore == InitStore /\ [][NextStore]_vars

\* ------------------------------------------------ the settled-result log
\* Calls of ResultsStore.Append and ResultsStore.GetByRoundID; each runs
\* under rs.mu from its first line to its last.
LogRounds == {"r1", "r2"}
LogResults ==
  {[RoundID |-> rid, BetID |-> "", Outcome |-> o[1], NextNumber |-> 0,
    BalanceDelta |-> o[2], SettledAt |-> 0, Symbols |-> <<>>,
    WinAmount |-> o[3]] :
     rid \in LogRounds, o \in {<<"win", 100, 200>>, <<"lose", -100, 0>>}}

\* Append of the result r with a write that ends as w.
LogAppend(p, r, w) ==
  /\ Len(resultsFile.list) < MaxLog
  /\ resultsFile' = AppendResult(r, w)
  /\ req' = [req EXCEPT ![p] =
       [op |-> "append", pc |-> "done", r |-> r, err |-> w # "written"]]
  /\ UNCHANGED <<nReq, useOperator, hiloVars, catalogVars,
                 wallet, draws, firstResp, mathVars,
                 crashVars>>

\* GetByRoundID of the round id.
LogGet(p, roundID) ==
  /\ req' = [req EXCEPT ![p] =
       [op |-> "lookup", pc |-> "done", id |-> roundID,
        res |-> GetByRoundID(roundID)]]
  /\ UNCHANGED <<nReq, useOperator, hiloVars, catalogVars,
                 wallet, scratchVars, mathVars, crashVars>>

NextLog ==
  \/ \E r \in LogResults, w \in WriteOutcomes : LogAppend(Caller, r, w)
  \/ \E roundID \in LogRounds : LogGet(Caller, roundID)

\* NewResultsStore on an empty data directory.
SpecLog == InitStore /\ [][NextLog]_vars

\* ------------------------------------------------------------ Hi/Lo rounds
minNum == 1
maxNum == 10

\* What secureIntn yields in the explored runs.
HiLoDraws == {0, 1, maxNum - minNum}

\* NextNumber: minNum + secureIntn(size), and secureIntn yields 0 when
\* rand.Int fails.
NextNumber(v, randOK) == minNum + (IF randOK THEN v ELSE 0)

\* round.Round
HiLoRound(roundID, amount, number) ==
  [RoundID |-> roundID, BetID |-> "bet", Currency |-> "USD",
   Amount |-> amount, CurrentNumber |-> number]

\* Working sets NewStore may load from rounds.json.
LoadedHiLoRounds ==
  {<<>>} \cup {[id \in {r} |-> HiLoRound(r, 100, NextNumber(1, TRUE))] :
                 r \in RoundIDs}

\* Store.save of the Hi/Lo rounds: the file after a save of the working set.
HiLoSaved(working, saveOK) == IF saveOK THEN working ELSE roundsFile

\* Store.Create: the working set after the call; a round held under the id
\* is replaced.
HiLoCreate(roundID, amount, number) ==
  Put(hiloRounds, roundID, HiLoRound(roundID, amount, number))

\* Store.Get: [ok, r].
HiLoGet(roundID) ==
  IF roundID \in DOMAIN hiloRounds
  THEN [ok |-> TRUE, r |-> hiloRounds[roundID]]
  ELSE [ok |-> FALSE, r |-> Nil]

\* Store.Delete: the working set after the call.
HiLoDelete(roundID) ==
  [r \in DOMAIN hiloRounds \ {roundID} |-> hiloRounds[r]]

\* roundEndResponse / roundStartResponse carrying an error.
HiLoErr(code, msg) == [code |-> code, Error |-> msg]

\* roundEndResponse of a settled round.
EndResp(outcome, nextNum, delta) ==
  [code |-> 200, Outcome |-> outcome, NextNumber |-> nextNum,
   BalanceDelta |-> delta, Error |-> ""]

\* Process state after an answer that ends the handler; found: Store.Get
\* returned a round.
HiLoEnded(q, r) ==
  [op |-> q.op, pc |-> "done", rid |-> q.rid, resp |-> r, found |-> FALSE]

\* roundStart: validation, client.Bet, then Store.Create, which draws the
\* current number and saves (the error of save is dropped).
HiLoStart(p, rid, tok, amount, betOK, v, randOK, saveOK) ==
  /\ Free(p)
  /\ nReq' = nReq + 1
  /\ LET fresh == [op |-> "hiloStart", rid |-> rid]
         ok == tok # "" /\ amount > 0 /\ betOK
         number == NextNumber(v, randOK)
     IN
       /\ req' = [req EXCEPT ![p] =
            HiLoEnded(fresh,
              IF tok = "" THEN HiLoErr(401, "token required")
              ELSE IF amount <= 0 THEN HiLoErr(400, "amount must be positive")
              ELSE IF ~betOK THEN HiLoErr(502, "bet failed")
              ELSE [code |-> 200, RoundID |-> rid, CurrentNumber |-> number,
                    BetID |-> "bet", Error |-> ""])]
       /\ IF ok THEN
            /\ wallet' = Called(rid, "bet")
            /\ hiloRounds' = HiLoCreate(rid, amount, number)
            /\ roundsFile' = HiLoSaved(hiloRounds', saveOK)
            /\ hist' = [hist EXCEPT ![rid].creates = @ + 1]
          ELSE
            /\ (v = 0 /\ randOK /\ saveOK)
            /\ UNCHANGED <<wallet, hiloVars, hist>>
  /\ UNCHANGED <<useOperator, catalogVars, scratchVars, mathVars,
                 crashRounds, crashFile, now>>

\* roundEnd, lines 372-399: validation and Store.Get.
HiLoEndGet(p, rid, tok, choice) ==
  /\ Free(p)
  /\ nReq' = nReq + 1
  /\ LET fresh == [op |-> "hiloEnd", pc |-> "resolve", rid |-> rid,
                   choice |-> choice, rnd |-> Nil, found |-> FALSE,
                   paid |-> FALSE, resp |-> Nil,
                   gen |-> IF rid \in RoundIDs THEN hist[rid].creates ELSE 0]
         g == HiLoGet(rid)
     IN req' = [req EXCEPT ![p] =
          IF tok = "" THEN HiLoEnded(fresh, HiLoErr(401, "token required"))
          ELSE IF rid = ""
            THEN HiLoEnded(fresh, HiLoErr(400, "roundId required"))
          ELSE IF choice \notin {"higher", "lower"}
            THEN HiLoEnded(fresh,
                           HiLoErr(400, "choice must be higher or lower"))
          ELSE IF ~g.ok
            THEN HiLoEnded(fresh,
                   HiLoErr(404, "round not found or already settled"))
          ELSE [fresh EXCEPT !.rnd = g.r, !.found = TRUE]]
  /\ UNCHANGED <<useOperator, hiloVars, catalogVars, wallet, scratchVars,
                 mathVars, crashVars>>

\* Lines 402-433: the next number is drawn, the outcome decided, and the
\* wallet called: a rollback on a push, a win credit of the stake on a win.
\* A failed wallet call is answered at once; the deferred Delete still runs.
HiLoEndResolve(p, v, randOK, ok) ==
  /\ req[p].op = "hiloEnd" /\ req[p].pc = "resolve"
  /\ LET rid == req[p].rid
         rnd == req[p].rnd
         nextNum == NextNumber(v, randOK)
         current == rnd.CurrentNumber
         win == \/ (req[p].choice = "higher" /\ nextNum > current)
                \/ (req[p].choice = "lower" /\ nextNum < current)
         push == nextNum = current
     IN
       IF push \/ win THEN
         IF ~ok THEN
           /\ req' = [req EXCEPT ![p] =
                [req[p] EXCEPT !.pc = "delete",
                               !.resp = HiLoErr(502, "wallet call failed")]]
           /\ UNCHANGED wallet
         ELSE
           /\ req' = [req EXCEPT ![p] =
                [req[p] EXCEPT !.pc = "append", !.paid = TRUE,
                   !.resp = IF push THEN EndResp("push", nextNum, 0)
                            ELSE EndResp("win", nextNum, rnd.Amount)]]
           /\ wallet' = IF push THEN Called(rid, "rollback")
                        ELSE [Called(rid, "win") EXCEPT
                                ![rid].winTotal = @ + rnd.Amount]
       ELSE
         /\ ok
         /\ req' = [req EXCEPT ![p] =
              [req[p] EXCEPT !.pc = "append",
                             !.resp = EndResp("lose", nextNum, -rnd.Amount)]]
         /\ UNCHANGED wallet
  /\ UNCHANGED <<nReq, useOperator, hiloVars, catalogVars, scratchVars,
                 mathVars, crashVars>>

\* Lines 436-448: the result is appended to the log, its error dropped, and
\* the outcome answered.
HiLoEndAppend(p, w) ==
  /\ req[p].op = "hiloEnd" /\ req[p].pc = "append"
  /\ LET r == req[p].resp
     IN resultsFile' =
          AppendResult([RoundID |-> req[p].rid, BetID |-> req[p].rnd.BetID,
                        Outcome |-> r.Outcome, NextNumber |-> r.NextNumber,
                        BalanceDelta |-> r.BalanceDelta, SettledAt |-> now,
                        Symbols |-> <<>>, WinAmount |-> 0], w)
  /\ req' = [req EXCEPT ![p].pc = "delete"]
  /\ UNCHANGED <<nReq, useOperator, hiloVars, catalogVars, wallet, draws,
                 firstResp, mathVars, crashVars>>

\* Line 400, run when the handler returns: Store.Delete, which saves (the
\* error of save is dropped).
HiLoEndDelete(p, saveOK) ==
  /\ req[p].op = "hiloEnd" /\ req[p].pc = "delete"
  /\ hiloRounds' = HiLoDelete(req[p].rid)
  /\ roundsFile' = HiLoSaved(hiloRounds', saveOK)
  /\ req' = [req EXCEPT ![p].pc = "done"]
  /\ UNCHANGED <<nReq, useOperator, catalogVars, wallet, scratchVars,
                 mathVars, crashVars>>

NextHiLo ==
  \/ \E p \in Procs, rid \in RoundIDs, tok \in Sessions, amount \in Bets,
        betOK \in BOOLEAN, v \in HiLoDraws, randOK \in BOOLEAN,
        saveOK \in BOOLEAN :
       HiLoStart(p, rid, tok, amount, betOK, v, randOK, saveOK)
  \/ \E p \in Procs, rid \in RoundIDs \cup {""}, tok \in Sessions,
        choice \in {"", "higher", "lower"} : HiLoEndGet(p, rid, tok, choice)
  \/ \E p \in Procs, v \in HiLoDraws, randOK \in BOOLEAN, ok \in BOOLEAN :
       HiLoEndResolve(p, v, randOK, ok)
  \/ \E p \in Procs, w \in WriteOutcomes : HiLoEndAppend(p, w)
  \/ \E p \in Procs, saveOK \in BOOLEAN : HiLoEndDelete(p, saveOK)
  \/ Restart

\* NewStore on the rounds.json of an earlier run.
InitHiLo ==
  /\ req = [p \in Procs |-> Idle]
  /\ nReq = 0
  /\ resultsFile = NoResults
  /\ math = <<>>
  /\ mathFile = SaveMath(math)
  /\ useOperator = FALSE
  /\ wallet = [r \in RoundIDs |-> NoCalls]
  /\ draws = [r \in RoundIDs |-> 0]
  /\ firstResp = [r \in RoundIDs |-> Nil]
  /\ crashRounds = <<>>
  /\ crashFile = <<>>
  /\ hiloRounds \in LoadedHiLoRounds
  /\ roundsFile = hiloRounds
  /\ hist = [r \in RoundIDs |->
               [creates |-> IF r \in DOMAIN hiloRounds THEN 1 ELSE 0,
                opened |-> 0, lazy |-> 0]]
  /\ now = 0
  /\ gamesDB = NoGames
  /\ registry = <<>>

SpecHiLo == InitHiLo /\ [][NextHiLo]_vars

\* ------------------------------------------------- the card of a drawn tier
\* Lines 72-84 of GenerateWithMath, one draw of secureIntn at a time.

\* symbols[secureIntn(len(symbols))]: secureIntn yields 0 when rand.Int fails.
DrawSymbol(v, randOK) == symbols[(IF randOK THEN v ELSE 0) + 1]

\* Tiers a card is drawn for: [Tier, Multiplier].
CardTiers ==
  {[Tier |-> k[1], Multiplier |-> k[2]] :
     k \in {<<"LOSE", 0>>, <<"LOSE", 2>>, <<"T1", 0>>, <<"T1", 2>>}}

\* Line 74: the tier takes the losing branch.
LosingTier(tier) == tier.Tier = "LOSE" \/ tier.Multiplier = 0

\* A redraw that leaves the third symbol as it is.
RedrawThirdKept(s, sym) == s

\* Line 79: s[2] = the symbol drawn.
RedrawThird(s, sym) == <<s[1], s[2], sym>>

\* Lines 73-77 and 81-84: the three symbols of a losing tier are drawn, or
\* one symbol for the three of a winning tier, which returns at once.
CardDraw(p, tier, v, randOK) ==
  /\ req[p].pc = "done"
  /\ LET s == [i \in 1..3 |-> DrawSymbol(v[i], randOK[i])]
     IN req' = [req EXCEPT ![p] =
          IF LosingTier(tier)
          THEN [op |-> "card", pc |-> "loop", tier |-> tier, s |-> s,
                first |-> s]
          ELSE [op |-> "card", pc |-> "done", tier |-> tier,
                s |-> <<s[1], s[1], s[1]>>, first |-> <<s[1], s[1], s[1]>>]]
  /\ (~LosingTier(tier) =>
        v[2] = 0 /\ v[3] = 0 /\ randOK[2] /\ randOK[3])
  /\ UNCHANGED <<nReq, resultsFile, useOperator, hiloVars, catalogVars,
                 wallet, draws, firstResp, mathVars, crashVars>>

\* Lines 78-80, the loop condition holds: the third symbol is drawn again.
CardRedraw(p, v, randOK) ==
  /\ req[p].op = "card" /\ req[p].pc = "loop"
  /\ AllEqual(req[p].s)
  /\ req' = [req EXCEPT ![p].s = RedrawThird(@, DrawSymbol(v, randOK))]
  /\ UNCHANGED <<nReq, resultsFile, useOperator, hiloVars, catalogVars,
                 wallet, draws, firstResp, mathVars, crashVars>>

\* Line 78, the loop condition fails: the loop is left and the card returned.
CardReturn(p) ==
  /\ req[p].op = "card" /\ req[p].pc = "loop"
  /\ ~AllEqual(req[p].s)
  /\ req' = [req EXCEPT ![p].pc = "done"]
  /\ UNCHANGED <<nReq, resultsFile, useOperator, hiloVars, catalogVars,
                 wallet, draws, firstResp, mathVars, crashVars>>

\* One call at a time: a call shares no state with another.
NextCard ==
  \/ \E tier \in CardTiers, v \in [1..3 -> 0..(Len(symbols) - 1)],
        randOK \in [1..3 -> BOOLEAN] : CardDraw(Caller, tier, v, randOK)
  \/ \E v \in 0..(Len(symbols) - 1), randOK \in BOOLEAN :
       CardRedraw(Caller, v, randOK)
  \/ CardReturn(Caller)

SpecCard == InitStore /\ [][NextCard]_vars

\* A redraw of process p from a random source that works and yields the
\* symbol sym.
RedrawYields(p, sym) ==
  \E v \in 0..(Len(symbols) - 1) :
    CardRedraw(p, v, TRUE) /\ DrawSymbol(v, TRUE) = sym

\* The goroutine of a call keeps running, and the random source is fair:
\* a loop that draws for ever draws every symbol.
SpecCardLive ==
  /\ SpecCard
  /\ WF_vars(CardReturn(Caller))
  /\ \A i \in DOMAIN symbols : WF_vars(RedrawYields(Caller, symbols[i]))

\* ------------------------------------------------------------ bundle import
gameSeqStart == 130300000

\* Rows of the games table (ACTIVE and enabled) before the server starts.
SeededGames ==
  {<<>>,
   <<[provider |-> "default", game_id |-> GameID]>>,
   <<[provider |-> "default", game_id |-> GameID],
     [provider |-> "partner", game_id |-> GameID]>>}

\* importZipResponse, with the HTTP status.
ImportResp(code, ok, gameID) == [code |-> code, OK |-> ok, GameID |-> gameID]

\* Registry.ListProviders
ListProviders == DOMAIN registry

\* Registry.ListGames: the list of the provider, none when it is unknown.
ListGames(providerID) ==
  IF providerID \in DOMAIN registry THEN registry[providerID] ELSE <<>>

\* Registry.Register: the providers after the call; the provider's list is
\* replaced by gameIDs.
RegisterGames(providerID, gameIDs) == Put(registry, providerID, gameIDs)

\* handleImportZip, lines 40-104: the body is read, the game id taken from
\* the sequence, the bundle extracted and the game upserted for the provider
\* "default" (an error of the upsert is logged and the import goes on).
ImportBegin(p, bodyOK, seqOK, extractOK, upsertOK) ==
  /\ Free(p)
  /\ nReq' = nReq + 1
  /\ LET next == gamesDB.seq + 1
         gameID == ToString(gameSeqStart + next - 1)
         fresh == [op |-> "import", pc |-> "providers", gameID |-> gameID,
                   todo |-> {}, pid |-> "", games |-> <<>>, resp |-> Nil]
         ended(r) == [fresh EXCEPT !.pc = "done", !.resp = r]
     IN
       IF ~bodyOK THEN
         /\ req' = [req EXCEPT ![p] = ended(ImportResp(400, FALSE, ""))]
         /\ (seqOK /\ extractOK /\ upsertOK)
         /\ UNCHANGED gamesDB
       ELSE IF ~seqOK THEN
         /\ req' = [req EXCEPT ![p] = ended(ImportResp(500, FALSE, ""))]
         /\ (extractOK /\ upsertOK)
         /\ UNCHANGED gamesDB
       ELSE IF ~extractOK THEN
         /\ req' = [req EXCEPT ![p] = ended(ImportResp(400, FALSE, gameID))]
         /\ upsertOK
         /\ gamesDB' = [gamesDB EXCEPT !.seq = next]
       ELSE
         /\ req' = [req EXCEPT ![p] = fresh]
         /\ gamesDB' =
              [seq |-> next,
               rows |-> IF upsertOK
                        THEN Append(gamesDB.rows,
                                    [provider |-> "default",
                                     game_id |-> gameID])
                        ELSE gamesDB.rows]
  /\ UNCHANGED <<resultsFile, useOperator, hiloVars, registry, wallet, draws,
                 firstResp, mathVars, crashVars>>

\* Line 106: ListProviders; with no provider the import is answered.
ImportProviders(p) ==
  /\ req[p].op = "import" /\ req[p].pc = "providers"
  /\ req' = [req EXCEPT ![p] =
       IF ListProviders = {}
       THEN [req[p] EXCEPT !.pc = "done",
                           !.resp = ImportResp(200, TRUE, req[p].gameID)]
       ELSE [req[p] EXCEPT !.pc = "list", !.todo = ListProviders]]
  /\ UNCHANGED <<nReq, resultsFile, useOperator, hiloVars, catalogVars, wallet,
                 draws, firstResp, mathVars, crashVars>>

\* Line 107: ListGames of the next provider of the loop.
ImportList(p, providerID) ==
  /\ req[p].op = "import" /\ req[p].pc = "list"
  /\ providerID \in req[p].todo
  /\ req' = [req EXCEPT ![p].pc = "register", ![p].pid = providerID,
                        ![p].games = ListGames(providerID)]
  /\ UNCHANGED <<nReq, resultsFile, useOperator, hiloVars, catalogVars, wallet,
                 draws, firstResp, mathVars, crashVars>>

\* Lines 108-117: the game id is looked up in the list read, and the list
\* with the game id appended is registered when it is not there; after the
\* last provider the import is answered, lines 120-124.
ImportRegister(p) ==
  /\ req[p].op = "import" /\ req[p].pc = "register"
  /\ LET gameID == req[p].gameID
         games == req[p].games
         todo == req[p].todo \ {req[p].pid}
     IN
       /\ registry' = IF \E i \in DOMAIN games : games[i] = gameID
                      THEN registry
                      ELSE RegisterGames(req[p].pid, Append(games, gameID))
       /\ req' = [req EXCEPT ![p] =
            IF todo = {}
            THEN [req[p] EXCEPT !.pc = "done", !.todo = todo,
                                !.resp = ImportResp(200, TRUE, gameID)]
            ELSE [req[p] EXCEPT !.pc = "list", !.todo = todo]]
  /\ UNCHANGED <<nReq, resultsFile, useOperator, hiloVars, gamesDB, wallet,
                 draws, firstResp, mathVars, crashVars>>

NextImport ==
  \/ \E p \in Procs, bodyOK \in BOOLEAN, seqOK \in BOOLEAN,
        extractOK \in BOOLEAN, upsertOK \in BOOLEAN :
       ImportBegin(p, bodyOK, seqOK, extractOK, upsertOK)
  \/ \E p \in Procs : ImportProviders(p)
  \/ \E p \in Procs, providerID \in {"default", "partner"} :
       ImportList(p, providerID)
  \/ \E p \in Procs : ImportRegister(p)
  \/ Restart

\* NewRegistry on the games table of an earlier run.
InitImport ==
  /\ req = [p \in Procs |-> Idle]
  /\ nReq = 0
  /\ resultsFile = NoResults
  /\ math = <<>>
  /\ mathFile = SaveMath(math)
  /\ useOperator = FALSE
  /\ wallet = [r \in RoundIDs |-> NoCalls]
  /\ draws = [r \in RoundIDs |-> 0]
  /\ firstResp = [r \in RoundIDs |-> Nil]
  /\ crashRounds = <<>>
  /\ crashFile = <<>>
  /\ hist = [r \in RoundIDs |-> [creates |-> 0, opened |-> 0, lazy |-> 0]]
  /\ now = 0
  /\ hiloRounds = <<>>
  /\ roundsFile = <<>>
  /\ \E rows \in SeededGames : gamesDB = [seq |-> 0, rows |-> rows]
  /\ \E dbOK \in BOOLEAN : registry = LoadRegistry(gamesDB, dbOK)

SpecImport == InitImport /\ [][NextImport]_vars

\* ------------------------------------------------------------------ claims
\* Results of the settled-result log recorded under a round id.
Recorded(rid) ==
  {i \in DOMAIN resultsFile.list : resultsFile.list[i].RoundID = rid}

ScratchDone(p) == req[p].op = "scratch" /\ req[p].pc = "done"

\* C1: of the instant-round requests that carry one round id, at most one
\* passes the no-recorded-result check and goes on to draw and settle, so the
\* log never holds two settlements of one round id.
C1_OneSettlementPerRoundID ==
  \A rid \in RoundIDs : Cardinality(Recorded(rid)) <= 1

\* C2: for a crash round (a round id started once), concurrent cashouts credit
\* at most one win.
C2_AtMostOneWinCredit ==
  \A rid \in RoundIDs : hist[rid].creates <= 1 => wallet[rid].win <= 1

\* C3: for a crash round (a round id started once), it never happens that a
\* status query closes the round as crashed and a cashout pays a win as well.
C3_LazyLossExcludesWin ==
  \A rid \in RoundIDs :
    hist[rid].creates <= 1 => ~(hist[rid].lazy >= 1 /\ wallet[rid].win >= 1)

\* The result fields of a scratch response.
ResultFields(r) == <<r.RoundID, r.Symbols, r.Tier, r.WinAmount, r.BalanceDelta>>

\* C4: a valid scratch round/start that begins after an earlier one with the
\* same round id has succeeded answers the same result fields as that first
\* response, without a draw and without a wallet call.
C4_ReplayIdentical ==
  \A p \in Procs :
    (ScratchDone(p) /\ req[p].after /\ req[p].resp.code \notin {400, 401})
      => /\ ResultFields(req[p].resp) = ResultFields(firstResp[req[p].rid])
         /\ ~req[p].drew
         /\ req[p].calls = 0

\* C5: when the requests of a round id run one after the other (the second
\* process never takes a request), retries after failed attempts included,
\* the round id sees at most one draw and at most one stake debit.
C5_RetryNoSecondDrawOrDebit ==
  req[2] = Idle =>
    \A rid \in RoundIDs :
      draws[rid] <= 1 /\ wallet[rid].debit + wallet[rid].bet <= 1

\* C6: a request whose Append of the result failed does not answer success.
C6_FailedAppendNotReported ==
  \A p \in Procs :
    (ScratchDone(p) /\ ~req[p].appendOK) => ~Succeeded(req[p].resp)

\* C7: a round id has a wallet effect only when its result is in the log.
C7_RecordedBeforeEffect ==
  \A rid \in RoundIDs : WalletCalls(rid) > 0 => Recorded(rid) # {}

\* C8: a request that finds the game's registered math unusable makes no
\* wallet call with an outcome of the legacy default and does not answer
\* success.
C8_UnusableMathFailsClosed ==
  \A p \in Procs :
    (req[p].op = "scratch" /\ req[p].substituted)
      => req[p].calls = 0 /\ (req[p].pc = "done" => ~Succeeded(req[p].resp))

\* What identifies a crash round but for its Settled flag.
Terms(r) == <<r.RoundID, r.BetID, r.Currency, r.Amount, r.CrashStep, r.StartedAt>>

\* C9: no step replaces a round that the crash store holds: a start with the
\* round id of a stored round leaves the round as it is.
C9_StartNeverOverwrites ==
  [][\A rid \in DOMAIN crashRounds \cap DOMAIN crashRounds' :
       Terms(crashRounds'[rid]) = Terms(crashRounds[rid])]_vars

\* C10: a SETTLED crash round stays SETTLED, with its stake, crash step and
\* start time.
C10_SettledAbsorbing ==
  [][\A rid \in DOMAIN crashRounds \cap DOMAIN crashRounds' :
       crashRounds[rid].Settled =>
         /\ crashRounds'[rid].Settled
         /\ crashRounds'[rid].Amount = crashRounds[rid].Amount
         /\ crashRounds'[rid].CrashStep = crashRounds[rid].CrashStep
         /\ crashRounds'[rid].StartedAt = crashRounds[rid].StartedAt]_vars

\* C11: the crash step and the start time of the round stored under a round
\* id never change, whatever start, cashout, status query or restart follows.
C11_CrashStepAndStartFixed ==
  [][\A rid \in DOMAIN crashRounds \cap DOMAIN crashRounds' :
       /\ crashRounds'[rid].CrashStep = crashRounds[rid].CrashStep
       /\ crashRounds'[rid].StartedAt = crashRounds[rid].StartedAt]_vars

\* Process p is in a cashout and takes the step from position pc of it.
CashoutStepFrom(p, pc) ==
  /\ req[p].op = "cashout" /\ req[p].pc = pc
  /\ req'[p].op = "cashout" /\ req'[p] # req[p]

\* The step the server computes now for the round that process p read.
ElapsedStep(p) == CurrentStep(req[p].cr.StartedAt, now)

\* C12: a cashout that the server evaluates when the elapsed step has reached
\* the crash step does not go on to a win credit, whatever step it claims.
C12_LateCashoutLoses ==
  [][\A p \in Procs :
       (CashoutStepFrom(p, "eval") /\ ElapsedStep(p) >= req[p].cr.CrashStep)
         => req'[p].pc # "win"]_vars

\* stake x (1 + step x 0.01), in cents.
Payout(stake, step) == stake + (stake * step) \div 100

\* A cashout of process p has answered r.
CashoutAnswered(p) == req[p].op = "cashout" /\ req[p].pc = "done"

C14_LossAtOrAfterCrashStep ==
  [][\A p \in Procs :
       LET q == req[p]
           rid == req[p].rid
       IN
         /\ (CashoutStepFrom(p, "eval") /\ q.step <= ElapsedStep(p)
               /\ q.step >= q.cr.CrashStep)
              => req'[p].pc = "lose" /\ wallet' = wallet
         /\ CashoutStepFrom(p, "lose")
              => /\ req'[p].pc = "done"
                 /\ req'[p].resp.code = 200
                 /\ ~req'[p].resp.CashedOut
                 /\ req'[p].resp.WinAmount = 0
                 /\ req'[p].resp.BalanceDelta = 0 - q.cr.Amount
                 /\ ~req'[p].paid
                 /\ wallet' = wallet
                 /\ rid \in DOMAIN crashRounds'
                 /\ crashRounds'[rid].Settled]_vars

\* A cashout has answered a loss at the crash step of the round, the round is
\* settled and has no win credit.
C14_Witness ==
  \E p \in Procs :
    /\ CashoutAnswered(p)
    /\ req[p].resp.code = 200
    /\ ~req[p].resp.CashedOut
    /\ req[p].resp.Crashed
    /\ req[p].resp.BalanceDelta < 0
    /\ wallet[req[p].rid].win = 0
    /\ req[p].rid \in DOMAIN crashRounds
    /\ crashRounds[req[p].rid].Settled
    /\ crashRounds[req[p].rid].CrashStep = req[p].resp.CrashStep

\* C15: a cashout whose claimed step exceeds the elapsed step that the server
\* computes is answered INVALID_STEP (400); the step changes neither the
\* crash store nor its file and makes no wallet call.
C15_FutureStepRejected ==
  [][\A p \in Procs :
       (CashoutStepFrom(p, "eval") /\ req[p].step > ElapsedStep(p))
         => /\ req'[p].pc = "done"
            /\ req'[p].resp = CrashErr(400, "INVALID_STEP")
            /\ ~req'[p].paid
            /\ crashRounds' = crashRounds
            /\ crashFile' = crashFile
            /\ wallet' = wallet]_vars

\* A cashout has been answered INVALID_STEP and its round is OPEN, with no
\* win credit.
C15_Witness ==
  \E p \in Procs :
    /\ CashoutAnswered(p)
    /\ req[p].resp = CrashErr(400, "INVALID_STEP")
    /\ req[p].rid \in DOMAIN crashRounds
    /\ ~crashRounds[req[p].rid].Settled
    /\ wallet[req[p].rid].win = 0

\* A request arrives and process p takes it as a cashout.
CashoutArrives(p) ==
  Free(p) /\ nReq' = nReq + 1 /\ req'[p].op = "cashout"

\* C16: a step that rejects a cashout (round not found, round settled,
\* claimed step in the future) changes neither the crash store nor its file
\* and makes no wallet call; a cashout with a token that finds its round
\* SETTLED is answered ROUND_SETTLED (409) at once.
C16_RejectedCashoutNoEffect ==
  [][\A p \in Procs :
       /\ ((CashoutArrives(p) \/ CashoutStepFrom(p, "eval"))
             /\ req'[p].pc = "done")
            => /\ req'[p].resp.code \in {400, 401, 404, 409}
               /\ ~req'[p].paid
               /\ crashRounds' = crashRounds
               /\ crashFile' = crashFile
               /\ wallet' = wallet
       /\ (CashoutArrives(p) /\ req'[p].rid \in DOMAIN crashRounds
             /\ crashRounds[req'[p].rid].Settled)
            => /\ req'[p].pc = "done"
               /\ req'[p].resp \in {CrashErr(409, "ROUND_SETTLED"),
                                     CrashErr(401, "TOKEN_REQUIRED")}]_vars

\* A cashout on a settled round that has its one win credit has been answered
\* ROUND_SETTLED.
C16_Witness ==
  \E p \in Procs :
    /\ CashoutAnswered(p)
    /\ req[p].resp = CrashErr(409, "ROUND_SETTLED")
    /\ req[p].rid \in DOMAIN crashRounds
    /\ crashRounds[req[p].rid].Settled
    /\ wallet[req[p].rid].win = 1

\* C17: once a status query has closed the round of a round id as crashed,
\* every cashout with a token that arrives for the round id is answered
\* ROUND_SETTLED (409) at once.
C17_LazyLossThenConflict ==
  [][\A p \in Procs :
       (CashoutArrives(p) /\ hist[req'[p].rid].lazy >= 1)
         => /\ req'[p].pc = "done"
            /\ req'[p].resp \in {CrashErr(409, "ROUND_SETTLED"),
                                  CrashErr(401, "TOKEN_REQUIRED")}]_vars

\* The crash store holds an OPEN round under the round id.
OpenRound(rid) == rid \in DOMAIN crashRounds /\ ~crashRounds[rid].Settled

\* C18: an OPEN crash round does not stay OPEN for ever, whether or not a
\* client sends a cashout or a status query.
C18_OpenRoundEventuallySettled ==
  \A rid \in RoundIDs : OpenRound(rid) ~> ~OpenRound(rid)

\* C19: a round id under which a crash round has been settled has a record
\* in the settled-result log.
C19_SettledRoundInAuditLog ==
  \A rid \in RoundIDs : hist[rid].opened >= 1 => Recorded(rid) # {}

\* Crash steps a round may have been given in place of its own.
OtherCrashSteps == {GenerateCrashStep(v, TRUE) : v \in CrashDraws} \cup {CrashStepMax}

\* The round cr with the crash step c.
WithCrashStep(cr, c) == [cr EXCEPT !.CrashStep = c]

\* C20: the response of a start is the round id and the start time and is the
\* same for every crash step the round may have; while the elapsed step is
\* below the crash step of the round and below another crash step c, the
\* answer of a status query and the decision and the answer of a cashout are
\* those the round would get with crash step c.
C20_CrashStepNotDisclosed ==
  [][\A p \in Procs : \A c \in OtherCrashSteps :
       LET q == req[p]
           rid == req[p].rid
       IN
         /\ (q.op = "crashStart" /\ q.pc = "create"
               /\ req'[p].op = "crashStart" /\ req'[p].pc = "done")
              => /\ DOMAIN req'[p].resp =
                      {"code", "RoundID", "StartedAtMs", "Error"}
                 /\ req'[p].resp = StartResp(WithCrashStep(crashRounds'[rid], c))
         /\ (q.op = "status" /\ q.pc = "eval" /\ req'[p].op = "status"
               /\ req'[p] # q
               /\ ElapsedStep(p) < q.cr.CrashStep /\ ElapsedStep(p) < c)
              => /\ req'[p].pc = "done"
                 /\ req'[p].resp =
                      StatusResp(rid, WithCrashStep(q.cr, c), ElapsedStep(p))
         /\ (CashoutStepFrom(p, "eval")
               /\ ElapsedStep(p) < q.cr.CrashStep /\ ElapsedStep(p) < c)
              => LET d == CashoutDecision(WithCrashStep(q.cr, c), q.step,
                                          ElapsedStep(p))
                 IN /\ d = "invalid" <=> req'[p].pc = "done"
                    /\ d = "win" <=> req'[p].pc = "win"
                    /\ req'[p].pc = "done"
                         => req'[p].resp = CrashErr(400, "INVALID_STEP")
         /\ CashoutStepFrom(p, "settle")
              => req'[p].resp = WinResp(rid, WithCrashStep(q.cr, c), q.win)]_vars

\* A status query has answered that the round, OPEN in the store, is running
\* at a step above 0, and a cashout of the round has been paid.
C20_Witness ==
  \E p \in Procs :
    /\ req[p].op = "status" /\ req[p].pc = "done"
    /\ "multiplier" \in DOMAIN req[p].resp
    /\ ~req[p].resp.crashed
    /\ req[p].resp.currentStep > 0
    /\ \E o \in Procs :
         /\ CashoutAnswered(o)
         /\ req[o].resp.code = 200
         /\ req[o].resp.CashedOut

\* The prize table of the model of the game; empty for no model.
GameTable ==
  IF MathGet(GameID) = Nil THEN <<>> ELSE MathGet(GameID).PrizeTable

PickAnswered(p) == req[p].op = "pick" /\ req[p].pc = "done"

\* C21: a tier that PickTier returns with ok has a weight above 0.
C21_PickedTierHasWeight ==
  \A p \in Procs :
    (PickAnswered(p) /\ req[p].res.ok) => req[p].res.tier.Weight > 0

\* PickTier has returned a tier of a table that has a tier of weight <= 0
\* before a tier of positive weight.
C21_Witness ==
  \E p \in Procs :
    /\ PickAnswered(p) /\ req[p].res.ok
    /\ Len(GameTable) >= 2
    /\ GameTable[1].Weight <= 0
    /\ req[p].res.tier = GameTable[2]

\* The sum of the positive weights of the table, as an integer.
RECURSIVE SumPositive(_, _)
SumPositive(table, n) ==
  IF n = 0 THEN 0
  ELSE SumPositive(table, n - 1)
         + (IF table[n].Weight > 0 THEN table[n].Weight ELSE 0)

\* The first positive-weight tier, in table order, whose cumulative weight
\* exceeds v.
FirstExceeding(table, v) ==
  CHOOSE i \in 1..Len(table) :
    /\ table[i].Weight > 0
    /\ SumPositive(table, i) > v
    /\ \A j \in 1..(i - 1) :
         table[j].Weight > 0 => SumPositive(table, j) <= v

\* C22: for a table with total positive weight W > 0, PickTier with a drawn
\* value answers ok with the first positive-weight tier whose cumulative
\* weight exceeds the value, the values it draws from are those of [0, W),
\* and the number of them that select a tier is the weight of the tier.
C22_PicksByCumulativeWeight ==
  LET W == SumPositive(GameTable, Len(GameTable)) IN
  W > 0 =>
    /\ PickRange(MathGet(GameID)) = 0..(W - 1)
    /\ \A p \in Procs :
         (PickAnswered(p) /\ req[p].randOK)
           => /\ req[p].res.ok
              /\ req[p].res.tier = GameTable[FirstExceeding(GameTable, req[p].v)]
    /\ \A i \in 1..Len(GameTable) :
         GameTable[i].Weight > 0 =>
           Cardinality({v \in 0..(W - 1) :
                          PickWalk(GameTable, v, 1, 0) = i}) = GameTable[i].Weight

\* C23: PickTier on no model, on an empty table and on a table whose weights
\* are all <= 0 answers ok = false with the zero-value tier.
C23_NoUsableWeightNotOK ==
  \A p \in Procs :
    (PickAnswered(p) /\ \A i \in 1..Len(GameTable) : GameTable[i].Weight <= 0)
      => ~req[p].res.ok /\ req[p].res.tier = ZeroTier

\* PickTier has answered for a table of two tiers, none with a weight above 0.
C23_Witness ==
  \E p \in Procs :
    /\ PickAnswered(p)
    /\ Len(GameTable) = 2
    /\ \A i \in 1..2 : GameTable[i].Weight <= 0
    /\ ~req[p].res.ok

GenerateAnswered(p) ==
  req[p].op = "generate" /\ req[p].pc = "done" /\ req[p].res.ok

\* C24: an outcome of GenerateWithMath has three equal symbols when the tier
\* drawn is a winning tier (label not LOSE and multiplier > 0) and not three
\* equal symbols when it is a losing tier (label LOSE or multiplier 0).
C24_SymbolsMatchTier ==
  \A p \in Procs :
    GenerateAnswered(p) =>
      LET t == req[p].tier
          syms == req[p].res.outcome.Symbols
      IN /\ (t.Tier # "LOSE" /\ t.Multiplier > 0) => AllEqual(syms)
         /\ (t.Tier = "LOSE" \/ t.Multiplier = 0) => ~AllEqual(syms)

\* GenerateWithMath has returned a losing card whose three first draws were
\* equal.
C24_Witness ==
  \E p \in Procs :
    /\ GenerateAnswered(p)
    /\ req[p].tier.Multiplier = 0
    /\ req[p].d[1] = req[p].d[2] /\ req[p].d[2] = req[p].d[3]
    /\ req[p].res.outcome.Symbols[3] # req[p].d[3]

ScratchSettles(p) ==
  /\ req[p].op = "scratch" /\ req[p].pc = "append"
  /\ req'[p].pc = "done"

\* C25: when an instant round whose outcome was drawn from a tier of the
\* game's math settles, the win amount returned is stake x multiplier of the
\* tier drawn and the balance delta returned is win amount - stake (-stake
\* when the win amount is 0), with the operator wallet and with the platform
\* wallet; the result appended to the log carries the same two amounts.
C25_WinIsStakeTimesMultiplier ==
  [][\A p \in Procs :
       (ScratchSettles(p) /\ req[p].fromTier) =>
         LET win == req[p].bet * req[p].mult
             r == req'[p].resp
             list == resultsFile'.list
         IN /\ r.WinAmount = win
            /\ r.BalanceDelta = win - req[p].bet
            /\ win = 0 => r.BalanceDelta = 0 - req[p].bet
            /\ req'[p].appendOK =>
                 /\ Len(list) = Len(resultsFile.list) + 1
                 /\ list[Len(list)].RoundID = req[p].rid
                 /\ list[Len(list)].WinAmount = win
                 /\ list[Len(list)].BalanceDelta = win - req[p].bet]_vars

\* With the operator wallet, a round drawn from a winning tier has settled,
\* is recorded, and has answered its win amount and a positive balance delta.
C25_Witness ==
  /\ useOperator
  /\ \E p \in Procs :
       /\ req[p].op = "scratch" /\ req[p].pc = "done" /\ req[p].drew
       /\ req[p].appendOK /\ Succeeded(req[p].resp)
       /\ req[p].resp.Tier = "T1"
       /\ req[p].resp.WinAmount > 0
       /\ req[p].resp.BalanceDelta = req[p].resp.WinAmount \div 2
       /\ Recorded(req[p].rid) # {}

RegisterReturns(p) ==
  /\ req[p].op = "register" /\ req[p].pc = "save"
  /\ req'[p].op = "register" /\ req'[p].pc = "done"

RegisterSkipped(p) ==
  /\ req[p].pc = "done" /\ req'[p] # req[p]
  /\ req'[p].op = "register" /\ req'[p].pc = "done"

GetReturns(p) ==
  /\ req[p].op = "get" /\ req[p].pc = "rlock"
  /\ req'[p].op = "get" /\ req'[p].pc = "done"

\* C26: when a Register of a model with a non-empty id returns, Get of the id
\* gives exactly the model passed (its table replaces the table registered
\* before) and the other ids keep their models; a Get returns the model of
\* the registry under its id, nil when there is none; and the model under an
\* id changes only in a Register of a model with that id (a restart loads
\* what was saved), so an id never registered has none.
C26_GetReturnsLastRegistered ==
  [][/\ \A p \in Procs :
          RegisterReturns(p) =>
            /\ MathGet(req[p].m.ModelID)' = req[p].m
            /\ \A id \in StoreIDs \ {req[p].m.ModelID} :
                 MathGet(id)' = MathGet(id)
     /\ \A p \in Procs :
          GetReturns(p) => req'[p].res = CommittedGet(req[p].id)
     /\ \A id \in StoreIDs :
          MathGet(id)' # MathGet(id) =>
            \/ Restart
            \/ \E p \in Procs :
                 /\ req[p].op = "register" /\ req[p].pc \in {"lock", "save"}
                 /\ req[p].m.ModelID = id /\ req'[p].pc # req[p].pc]_vars

\* A Get has returned the second model registered under the id of the game,
\* whose save failed: the file still holds the first.
C26_Witness ==
  /\ \E p \in Procs :
       /\ req[p].op = "get" /\ req[p].pc = "done"
       /\ req[p].id = GameID /\ req[p].res = StoreB
  /\ ~mathFile.torn
  /\ [ModelID |-> GameID, Math |-> MathUsable] \in mathFile.entries

\* C27: a Register of a nil model or of a model with an empty id returns no
\* error and leaves the registry and the file as they were; no model is ever
\* registered under the empty id, and a Get of it returns nil.
C27_NilOrEmptyIDIsNoOp ==
  /\ [](MathGet("") = Nil)
  /\ [](\A p \in Procs :
          (req[p].op = "get" /\ req[p].pc = "done" /\ req[p].id = "")
            => req[p].res = Nil)
  /\ [][\A p \in Procs :
          (RegisterSkipped(p) \/ (StoreFree(p) /\ req'[p].op = "register"
                                  /\ req'[p] # req[p]
                                  /\ (req'[p].m = Nil \/ req'[p].m.ModelID = "")))
            => /\ req'[p].pc = "done" /\ ~req'[p].err
               /\ math' = math /\ mathFile' = mathFile]_vars

\* A Register of a model with an empty id has returned on a registry that
\* holds a model, and a Get of the empty id has returned.
C27_Witness ==
  /\ DOMAIN math # {}
  /\ \E p \in Procs :
       /\ req[p].op = "register" /\ req[p].pc = "done" /\ req[p].m = MathNoID
  /\ \E p \in Procs :
       /\ req[p].op = "get" /\ req[p].pc = "done" /\ req[p].id = ""

\* C28: when a Register returns no error, the registry loaded from the file
\* is the registry of the Store: every id registered has its model.
C28_SuccessMeansSaved ==
  [][\A p \in Procs :
       ((RegisterReturns(p) \/ RegisterSkipped(p)) /\ ~req'[p].err)
         => LoadMath(mathFile') = Committed']_vars

\* C29: a Get returns nil or a complete model that a Register supplied under
\* the id, and what it returns was the model last registered under the id at
\* some time between the call of the Get and its return.
C29_GetLinearizable ==
  \A p \in Procs :
    (req[p].op = "get" /\ req[p].pc = "done") =>
      /\ req[p].res \in req[p].seen
      /\ req[p].res # Nil =>
           /\ req[p].res \in StoreModels
           /\ req[p].res.ModelID = req[p].id

\* A Get called while a Register of its id held s.mu has returned the model
\* of that Register.
C29_Witness ==
  \E p \in Procs :
    /\ req[p].op = "get" /\ req[p].pc = "done"
    /\ Cardinality(req[p].seen) = 2
    /\ req[p].res = StoreB

\* C30: every result of the log stays in the log, at its place, through
\* every call, and a GetByRoundID returns the last result of the log with
\* its round id, nil when there is none.
C30_LogAppendOnly ==
  [][/\ \A i \in DOMAIN resultsFile.list :
          /\ i \in DOMAIN resultsFile'.list
          /\ resultsFile'.list[i] = resultsFile.list[i]
     /\ \A p \in Procs :
          (req'[p].op = "lookup" /\ req'[p] # req[p]) =>
            LET found == Recorded(req'[p].id) IN
            req'[p].res.res =
              IF found = {} THEN Nil
              ELSE resultsFile.list[CHOOSE i \in found :
                                      \A j \in found : j <= i]]_vars

\* The results of the log file f recorded under a round id, in log order.
ResultsOf(f, rid) ==
  LET Under(r) == r.RoundID = rid IN SelectSeq(f.list, Under)

\* C31: an Append of the result of one round that fails leaves what the log
\* holds for every other round as it was, and leaves the model registry as
\* it was in memory and in its file.
C31_FailedWriteLeavesOtherRounds ==
  [][\A p \in Procs :
       (req'[p].op = "append" /\ req'[p] # req[p] /\ req'[p].err) =>
         /\ \A rid \in LogRounds \ {req'[p].r.RoundID} :
              ResultsOf(resultsFile', rid) = ResultsOf(resultsFile, rid)
         /\ math' = math /\ mathFile' = mathFile]_vars

StatusStepFromEval(p) ==
  /\ req[p].op = "status" /\ req[p].pc = "eval"
  /\ req'[p].op = "status" /\ req'[p] # req[p]

\* C32: the elapsed step of a crash round, floor((now - startedAt) / 100 ms)
\* floored at 0, is never negative and does not decrease when the clock
\* advances; the step a status request answers or settles on, and the step a
\* cashout checks its claimed step against, is that function of the clock
\* and of the start time of the round the request read.
C32_ElapsedStepMonotone ==
  [][/\ \A rid \in DOMAIN crashRounds :
          LET startedAt == crashRounds[rid].StartedAt IN
          /\ CurrentStep(startedAt, now) >= 0
          /\ now' >= now =>
               CurrentStep(startedAt, now') >= CurrentStep(startedAt, now)
     /\ \A p \in Procs :
          StatusStepFromEval(p) =>
            /\ ElapsedStep(p) >= 0
            /\ IF req'[p].pc = "done"
               THEN req'[p].resp.currentStep = ElapsedStep(p)
               ELSE req'[p].currentStep = ElapsedStep(p)
     /\ \A p \in Procs :
          CashoutStepFrom(p, "eval") =>
            (req'[p].pc = "done" <=> req[p].step > ElapsedStep(p))]_vars

\* A status request has answered step 0 for a round whose start time is
\* ahead of the clock.
C32_Witness ==
  \E p \in Procs :
    /\ req[p].op = "status" /\ req[p].pc = "done"
    /\ req[p].resp.code = 200
    /\ req[p].rid \in DOMAIN crashRounds
    /\ crashRounds[req[p].rid].StartedAt > now
    /\ req[p].resp.currentStep = 0
    /\ ~req[p].resp.crashed

\* C33: every Hi/Lo round is settled at most once. The wallet win and
\* rollback calls made for a round id never outnumber the rounds created
\* under it, and a round/end that arrives after another round/end of the
\* same round has been answered with its outcome, no round created under
\* the id in between, is answered "round not found or already settled".
HiLoAnswered(q, rid) ==
  /\ req[q].op = "hiloEnd" /\ req[q].rid = rid /\ req[q].found
  /\ req[q].pc \in {"delete", "done"} /\ req[q].resp.code = 200
  /\ req[q].gen = hist[rid].creates

C33_HiLoSettledOnce ==
  [][\A rid \in RoundIDs :
       /\ wallet'[rid].win + wallet'[rid].rollback <= hist'[rid].creates
       /\ \A p \in Procs :
            (/\ req'[p].op = "hiloEnd" /\ req'[p].rid = rid
             /\ req'[p] # req[p] /\ nReq' = nReq + 1
             /\ \E q \in Procs \ {p} : HiLoAnswered(q, rid))
              => (req'[p].pc = "done" /\ req'[p].resp.code = 404)]_vars

\* C34: a winning crash cashout pays at most the stake times the multiplier
\* of the elapsed step when the request is evaluated, and strictly less than
\* the stake times the multiplier of the crash step; the wallet is credited
\* that amount and no other.
C34_WinBelowCrashPayout ==
  [][\A p \in Procs :
       LET cr == req[p].cr
       IN /\ (CashoutStepFrom(p, "eval") /\ req'[p].pc = "win") =>
               /\ req'[p].win <= Payout(cr.Amount, ElapsedStep(p))
               /\ req'[p].win < Payout(cr.Amount, cr.CrashStep)
          /\ (CashoutStepFrom(p, "win") /\ req'[p].paid) =>
               /\ wallet'[req[p].rid].winTotal
                    = wallet[req[p].rid].winTotal + req[p].win
               /\ req[p].win <= Payout(cr.Amount, ElapsedStep(p))
               /\ req[p].win < Payout(cr.Amount, cr.CrashStep)]_vars

\* A cashout at a step above 0 was paid more than the stake.
C34_Witness ==
  \E p \in Procs :
    /\ CashoutAnswered(p) /\ req[p].paid
    /\ req[p].resp.code = 200 /\ req[p].resp.CashedOut
    /\ LET stake == req[p].resp.WinAmount - req[p].resp.BalanceDelta
       IN /\ stake > 0
          /\ req[p].resp.WinAmount = Payout(stake, 7)
          /\ wallet[req[p].rid].winTotal >= req[p].resp.WinAmount

\* C35: in every outcome that GenerateWithMath returns with ok = true, Match
\* is true exactly when WinAmount > 0 and exactly when the three symbols are
\* all equal.
C35_MatchWinSymbolsAgree ==
  \A p \in Procs :
    GenerateAnswered(p) =>
      LET o == req[p].res.outcome
      IN /\ o.Match <=> o.WinAmount > 0
         /\ o.Match <=> AllEqual(o.Symbols)

\* C36: a winning cashout whose wallet win credit fails answers WIN_FAILED
\* and leaves the crash store as it was, in memory and on disk: the round it
\* read stays OPEN with the same fields, no credit is counted, and a cashout
\* that reads the round next is not rejected as settled.
WinRefused(p) ==
  /\ CashoutStepFrom(p, "win")
  /\ req'[p].pc = "done" /\ ~req'[p].paid

C36_FailedCreditKeepsRoundOpen ==
  [][\A p \in Procs :
       WinRefused(p) =>
         LET rid == req[p].rid IN
         /\ req'[p].resp = CrashErr(502, "WIN_FAILED")
         /\ crashRounds' = crashRounds /\ crashFile' = crashFile
         /\ wallet' = wallet /\ hist' = hist
         /\ (rid \in DOMAIN crashRounds /\ crashRounds[rid] = req[p].cr) =>
              /\ ~crashRounds'[rid].Settled
              /\ CashoutReject("s1", [ok |-> TRUE, r |-> crashRounds'[rid]])
                   = Nil]_vars

\* A cashout was answered WIN_FAILED and its round is OPEN in the store and
\* in the file, with no win credited.
C36_Witness ==
  \E p \in Procs :
    /\ CashoutAnswered(p)
    /\ req[p].resp = CrashErr(502, "WIN_FAILED")
    /\ req[p].rid \in DOMAIN crashRounds
    /\ ~crashRounds[req[p].rid].Settled
    /\ req[p].rid \in DOMAIN crashFile
    /\ ~crashFile[req[p].rid].Settled
    /\ wallet[req[p].rid].win = 0

\* The server starts again in this step: every handler is gone and the
\* files are as they were.
Restarts ==
  /\ req' = [p \in Procs |-> Idle]
  /\ nReq' = nReq /\ crashFile' = crashFile

CrashCreates(p) ==
  /\ req[p].op = "crashStart" /\ req[p].pc = "create"
  /\ req'[p].op = "crashStart" /\ req'[p].pc = "done"

\* C38: the crash step of a round start is in [CrashStepMin, CrashStepMax]
\* for every value the random source can yield, and is CrashStepMin when the
\* source fails; every round of the working set has a crash step of at least
\* CrashStepMin, and a cashout at step 0 is never evaluated as a loss.
C38_CrashStepInRange ==
  [][/\ \A p \in Procs :
          /\ CrashCreates(p) =>
               /\ crashRounds'[req[p].rid].CrashStep
                    \in CrashStepMin..CrashStepMax
               /\ \A v \in 0..(CrashStepMax - CrashStepMin) :
                    /\ GenerateCrashStep(v, TRUE)
                         \in CrashStepMin..CrashStepMax
                    /\ GenerateCrashStep(v, FALSE) = CrashStepMin
          /\ (CashoutStepFrom(p, "eval") /\ ClampStep(req[p].step) = 0)
               => req'[p].pc \in {"win", "done"} /\ req'[p].pc # "lose"
          /\ (CashoutStepFrom(p, "eval") /\ req[p].step = 0)
               => req'[p].pc = "win"
     /\ \A rid \in DOMAIN crashRounds' :
          crashRounds'[rid].CrashStep >= CrashStepMin]_vars

\* A cashout at step 0 of a round started in this run was paid the stake.
C38_Witness ==
  \E p \in Procs :
    /\ CashoutAnswered(p) /\ req[p].paid
    /\ req[p].resp.code = 200 /\ req[p].resp.CashedOut
    /\ req[p].resp.BalanceDelta = 0
    /\ wallet[req[p].rid].bet > 0
    /\ hist[req[p].rid].creates > 0

\* C39: the redraw loop of a losing tier ends: a call that is in the loop
\* returns, with three symbols that are not all equal.
C39_RedrawLoopEnds ==
  \A p \in Procs :
    (req[p].op = "card" /\ req[p].pc = "loop")
      ~> (req[p].op = "card" /\ req[p].pc = "done"
          /\ LosingTier(req[p].tier) /\ ~AllEqual(req[p].s))

\* A card of a losing tier whose three symbols were first drawn equal has
\* been returned.
C39_Witness ==
  \E p \in Procs :
    /\ req[p].op = "card" /\ req[p].pc = "done"
    /\ LosingTier(req[p].tier)
    /\ AllEqual(req[p].first) /\ ~AllEqual(req[p].s)

\* The game ids of a list.
Listed(games) == {games[i] : i \in DOMAIN games}

\* Process p answers its import with "bundle imported" in this step.
ImportCompletes(p) ==
  /\ req[p].op = "import" /\ req[p].pc # "done"
  /\ req'[p].op = "import" /\ req'[p].pc = "done"
  /\ req'[p].resp.code = 200

\* C40: when an import of game G is answered, every provider of the games
\* registry lists G, and no step of an import takes a game id out of the
\* list of a provider, however concurrent imports interleave.
C40_ImportLosesNoGame ==
  [][/\ \A p \in Procs :
          ImportCompletes(p) =>
            \A pid \in DOMAIN registry' :
              req[p].gameID \in Listed(registry'[pid])
     /\ ~Restarts =>
          \A pid \in DOMAIN registry :
            /\ pid \in DOMAIN registry'
            /\ Listed(registry[pid]) \subseteq Listed(registry'[pid])]_vars

====
